---- MODULE Spec2Model ----
(***************************************************************************)
(* Write guard and governance state machine of the CareSync orchestrator   *)
(* (services/safeguards.py): the protected-resource match, the audit log,  *)
(* the admin notification sink, safe_write and OrchestratorState.          *)
(*                                                                         *)
(* Strings are sequences of one-character strings, so that normalisation   *)
(* and the substring test are computed character by character.             *)
(* Time is datetime.utcnow() in seconds since the process started.         *)
(***************************************************************************)
EXTENDS Integers, Sequences, FiniteSets, TLC

\* ---------------------------------------------------------------- bounds
\* safe_write calls on a protected resource started in one behaviour
MaxCalls == 4
\* the operator calls pause() only while fewer than MaxPauses pause
\* notifications were sent
MaxPauses == 1
\* failures of the audit store in one behaviour
MaxAuditFailures == 1
\* the clock advances in steps of TickStep seconds, up to MaxTime
TickStep == 1800
MaxTime == 3600
\* notify_admin calls that raise in one behaviour
MaxSinkFailures == 2
\* rows inserted into review_queue in one behaviour
MaxTasks == 2
\* resolve requests started in one behaviour
MaxResolves == 3
\* failures of the review_queue store in one behaviour
MaxStoreFailures == 1
\* entries of the icd_data handed to build_index
MaxItems == 2
\* encounter.created messages delivered in one behaviour
MaxMessages == 3
\* process_encounter calls in one behaviour
MaxEncounters == 2

\* ------------------------------------------------------ program constants
\* increment_blocked_writes: `if self._blocked_write_count >= 3`
PauseThreshold == 3
\* increment_blocked_writes: `if time_since_reset < 3600`
WindowSeconds == 3600

\* the two callers that may run safe_write concurrently
T1 == "t1"
T2 == "t2"
Threads == {T1, T2}

\* ---------------------------------------------------------------- strings
BS == "\\"
FS == "/"

s_namaste_csv == <<"n","a","m","a","s","t","e",".","c","s","v">>
s_data_namaste_csv == <<"d","a","t","a","/">> \o s_namaste_csv
s_namaste_mappings_table ==
    <<"n","a","m","a","s","t","e","_","m","a","p","p","i","n","g","s","_","t","a","b","l","e">>
s_ayush_terms == <<"a","y","u","s","h","_","t","e","r","m","s">>
s_mapping_candidates ==
    <<"m","a","p","p","i","n","g","_","c","a","n","d","i","d","a","t","e","s">>
s_mapping_index_faiss ==
    <<"m","a","p","p","i","n","g","_","i","n","d","e","x","_","f","a","i","s","s">>
s_data_faiss_index_bin ==
    <<"d","a","t","a","/","f","a","i","s","s","_","i","n","d","e","x",".","b","i","n">>
s_mapping_model_weights ==
    <<"m","a","p","p","i","n","g","_","m","o","d","e","l","_","w","e","i","g","h","t","s">>
s_data_reranker_joblib ==
    <<"d","a","t","a","/","r","e","r","a","n","k","e","r",".","j","o","b","l","i","b">>

\* resource strings passed to safe_write by callers
s_win_data_namaste_csv == <<"d","a","t","a",BS>> \o s_namaste_csv
s_backup_ayush_terms == <<"b","a","k","/">> \o s_ayush_terms
s_encounters == <<"e","n","c","o","u","n","t","e","r","s">>

Resources ==
    {s_namaste_csv, s_win_data_namaste_csv, s_backup_ayush_terms, s_encounters}

\* the hardcoded fallback of _load_mapping_resources
DefaultResources ==
    {s_namaste_csv, s_data_namaste_csv, s_namaste_mappings_table, s_ayush_terms,
     s_mapping_candidates, s_mapping_index_faiss, s_data_faiss_index_bin,
     s_mapping_model_weights, s_data_reranker_joblib}

\* config/mapping_resources.yml as the process may find it at import time:
\* absent, unreadable or malformed, or a list of identifiers (written with
\* forward slashes, or with backslashes on a Windows host)
ConfigFiles ==
    {[kind |-> "absent", resources |-> {}],
     [kind |-> "malformed", resources |-> {}],
     [kind |-> "list", resources |-> {s_data_namaste_csv, s_ayush_terms}],
     [kind |-> "list", resources |-> {s_win_data_namaste_csv}]}

\* _load_mapping_resources()
LoadMappingResources(config) ==
    IF config.kind = "absent" THEN DefaultResources
    ELSE IF config.kind = "malformed" THEN {}
    ELSE config.resources

\* str.replace("\\", "/")
Normalize(resource) ==
    [i \in DOMAIN resource |-> IF resource[i] = BS THEN FS ELSE resource[i]]

\* Python `protected in normalized` on strings
Contains(protected, normalized) ==
    \E i \in 0..(Len(normalized) - Len(protected)) :
        SubSeq(normalized, i + 1, i + Len(protected)) = protected

VARIABLES
    MAPPING_DATA_RESOURCES,  \* module global, set once at import
    mode,                    \* OrchestratorState._mode
    blocked_write_count,     \* OrchestratorState._blocked_write_count
    last_reset,              \* OrchestratorState._last_reset
    now,                     \* datetime.utcnow()
    audit,                   \* rows of the orchestrator_audit table
    audit_errors,            \* "Failed to create audit log" lines logged
    notified,                \* ADMIN ALERT lines logged, per title
    pc,                      \* where each caller is inside safe_write
    frame,                   \* locals of the safe_write call in flight
    opHist,                  \* the governance operation called last, and for
                             \* resume() the operation that ended before it
    lastCall,                \* the safe_write that ended last, if nothing ran since
    raised,                  \* PermissionErrors raised so far
    streak                   \* the blocked calls that ended since the last
                             \* governance operation: when, and the mode at entry

VARIABLES
    sink_errors,             \* notify_admin calls that raised
    pauseCall                \* how the last pause() ended for its caller

\* the notification sink as its callers see it
sinkVars == <<sink_errors, pauseCall>>

VARIABLES
    review_queue,            \* rows of the review_queue table, by id
    store_errors,            \* failures of the review_queue store so far
    rq,                      \* the resolve requests in flight
    resolves,                \* resolve requests started so far
    resolved_ok              \* per task id, the resolve requests answered
                             \* with "Review task resolved"

\* the review queue and the requests on it
reviewVars == <<review_queue, store_errors, rq, resolves, resolved_ok>>

\* the state of the write guard and of the governance state machine
guardVars == <<MAPPING_DATA_RESOURCES, mode, blocked_write_count, last_reset,
               notified, pc, frame, opHist, lastCall, raised, streak, sinkVars>>

VARIABLES
    ayush_map,               \* MappingEngine.ayush_map
    icd11_map,               \* MappingEngine.icd11_map, in insertion order
    faiss_loaded,            \* MappingEngine.faiss.is_loaded()
    reranker,                \* whether MappingEngine.reranker is loaded
    icd11_service,           \* whether MappingEngine.icd11_service is given
    suggestCall,             \* the arguments of the suggest call to come, and
                             \* what the external components will answer
    lastSuggest              \* what the suggest call returned, once it ended

\* the mapping engine
engineVars == <<ayush_map, icd11_map, faiss_loaded, reranker, icd11_service,
                suggestCall, lastSuggest>>

VARIABLES
    published,               \* events published on the bus, in order
    suggest_calls,           \* calls of mapping_engine.suggest made by
                             \* process_encounter so far
    encounters,              \* process_encounter calls so far
    lastEncounter            \* the process_encounter call that ended last:
                             \* its payload, the mode and the last governance
                             \* operation at its start, what suggest returned
                             \* per term, and the sizes of the audit table,
                             \* the review queue and the bus at its start

\* the orchestrator service
encounterVars == <<published, suggest_calls, encounters, lastEncounter>>

VARIABLES
    index,                   \* FaissIndex.index: None, or the faiss index
                             \* with the vectors added
    icd_texts,               \* FaissIndex.icd_texts: None, or the array of
                             \* the texts
    icd_codes,               \* FaissIndex.icd_codes
    disk,                    \* data/icd_index.faiss and data/icd_texts.npy:
                             \* None, or the index and the texts saved
    built,                   \* the build_index call this FaissIndex object
                             \* has its index from, None when it has none or
                             \* read it from the files
    indexCall                \* the call on the FaissIndex that ended last

\* the FAISS index service
indexVars == <<index, icd_texts, icd_codes, disk, built, indexCall>>

VARIABLES
    inflight                 \* the process_encounter coroutines that have
                             \* started and are suspended at an await, each
                             \* with its payload and its extracted terms

\* process_encounter calls in flight
flightVars == <<inflight>>

VARIABLES
    runState,                \* OrchestratorService.run(): not called yet,
                             \* listening in event_bus.subscribe, returned,
                             \* or closed (asyncio.run has ended)
    inbox,                   \* encounter.created messages Redis has
                             \* delivered to the subscription, not yet read
    delivered,               \* messages delivered so far
    tasks                    \* the tasks handler() has created, in order

\* the event loop of the orchestrator service
loopVars == <<runState, inbox, delivered, tasks>>

VARIABLES
    clinical_records,        \* table clinical_records: consent and synced
                             \* per record id (committed)
    claims_log,              \* table claims_log: the record ids of its rows
                             \* (committed), in order
    passes                   \* process_unsynced_records passes so far

\* the background worker
workerVars == <<clinical_records, claims_log, passes>>

\* the services that run beside the orchestrator
backgroundVars == <<indexVars, flightVars, loopVars, workerVars>>

\* everything the write guard never touches
outsideGuard == <<reviewVars, engineVars, encounterVars, backgroundVars>>

vars == <<guardVars, now, audit, audit_errors, outsideGuard>>

\* is_mapping_resource(resource)
is_mapping_resource(resource) ==
    LET normalized == Normalize(resource)
    IN  IF normalized \in MAPPING_DATA_RESOURCES THEN TRUE
        ELSE \E protected \in MAPPING_DATA_RESOURCES :
                 Contains(protected, normalized)

BlockedTitle == "Blocked Mapping Write Attempt"
PausedTitle == "Orchestrator Paused"
Titles == {BlockedTitle, PausedTitle}

\* the row safe_write hands to audit_log: action, actor, status and
\* attempted_write (resource_target, payload_summary, error_message and
\* timestamp do not bear on any transition)
BlockedAuditRow ==
    [action |-> "mapping_write_blocked", actor |-> "orchestrator_agent",
     status |-> "blocked", attempted_write |-> TRUE]

\* audit_log(...): the row is committed and its id returned, or the store
\* fails (dbOk = FALSE), the error is logged and -1 returned
audit_log(row, dbOk) ==
    IF dbOk
    THEN [rows |-> Append(audit, row), errors |-> audit_errors,
          id |-> Len(audit) + 1]
    ELSE [rows |-> audit, errors |-> audit_errors + 1, id |-> -1]

\* notify_admin(title, details): one ADMIN ALERT line per call
notify_admin(sent, title) == [sent EXCEPT ![title] = @ + 1]

NoFrame == [resource |-> <<>>, audit_id |-> 0, count0 |-> 0, mode0 |-> "none",
            tmp |-> 0]
NoCall == [resource |-> <<>>, result |-> "none", audit_id |-> 0, count0 |-> 0]

AllIdle == \A t \in Threads : pc[t] = "idle"

\* the two resolve requests that may be served at the same time (one per
\* worker process)
Requests == {"r1", "r2"}

\* ids the review_queue table hands out (autoincrement), and one more that
\* no row ever gets
TaskIds == 1..(MaxTasks + 1)

\* the bodies of the resolve requests (ResolveReviewRequest)
ResolveReviewRequests ==
    {[resolution |-> "accept", resolved_by |-> "dr_a"],
     [resolution |-> "reject", resolved_by |-> "dr_b"]}

EncounterIds == {"enc1", "enc2"}

\* a request: where it is, its arguments, and the status of the row when
\* the query read it
NoRequest == [pc |-> "idle", task_id |-> 0, resolution |-> "None",
              resolved_by |-> "None", status0 |-> "None"]

\* ReviewQueue(encounter_id=..., reason=..., priority=..., status='open')
\* once inserted (payload and created_at do not bear on any transition)
ReviewQueue(encounter_id, reason, priority) ==
    [encounter_id |-> encounter_id, reason |-> reason, priority |-> priority,
     status |-> "open", resolution |-> "None", assigned_to |-> "None",
     resolved_at |-> -1]

\* the row audit_log gets from resolve_review_task
ResolvedAuditRow(task_id, resolution, resolved_by) ==
    [action |-> "review_task_resolved", actor |-> resolved_by,
     status |-> "success", attempted_write |-> FALSE, task_id |-> task_id,
     resolution |-> resolution]

\* Python's None
None == [py |-> "None"]

\* the process_encounter coroutines that may be in flight at the same time
Coroutines == {"p1", "p2"}
NoFlight == [pc |-> "none", encounter |-> None, terms |-> {}]

\* ids of clinical records; a row that does not exist yet
RecordIds == {"rec1", "rec2"}
NoRecord == [exists |-> FALSE, consent |-> FALSE, synced |-> FALSE]

NoEncounter == [encounter_id |-> "None", mode0 |-> "none", op0 |-> "none",
                terms |-> {}, outcomes |-> {}, audit0 |-> 0, queue0 |-> 0,
                published0 |-> 0, calls0 |-> 0, storeOk |-> TRUE]

\* the state once services/safeguards.py is imported
Boot(config) ==
    /\ MAPPING_DATA_RESOURCES = LoadMappingResources(config)
    /\ mode = "active"
    /\ blocked_write_count = 0
    /\ last_reset = 0
    /\ now = 0
    /\ audit = <<>>
    /\ audit_errors = 0
    /\ notified = [title \in Titles |-> 0]
    /\ pc = [t \in Threads |-> "idle"]
    /\ frame = [t \in Threads |-> NoFrame]
    /\ opHist = <<"-", "init">>
    /\ lastCall = NoCall
    /\ raised = 0
    /\ streak = <<>>
    /\ sink_errors = 0
    /\ pauseCall = "none"
    /\ review_queue = <<>>
    /\ store_errors = 0
    /\ rq = [r \in Requests |-> NoRequest]
    /\ resolves = 0
    /\ resolved_ok = [id \in TaskIds |-> 0]
    /\ published = <<>>
    /\ suggest_calls = 0
    /\ encounters = 0
    /\ lastEncounter = NoEncounter
    /\ index = None
    /\ icd_texts = None
    /\ icd_codes = <<>>
    /\ disk = None
    /\ built = None
    /\ indexCall = None
    /\ inflight = [c \in Coroutines |-> NoFlight]
    /\ runState = "new"
    /\ inbox = <<>>
    /\ delivered = 0
    /\ tasks = <<>>
    /\ clinical_records = [id \in RecordIds |-> NoRecord]
    /\ claims_log = <<>>
    /\ passes = 0


\* ------------------------------------------------- text, as Python sees it
UpperCase ==
    <<"A","B","C","D","E","F","G","H","I","J","K","L","M","N","O","P","Q","R","S","T","U","V","W","X","Y","Z">>
LowerCase ==
    <<"a","b","c","d","e","f","g","h","i","j","k","l","m","n","o","p","q","r","s","t","u","v","w","x","y","z">>
Whitespace == {" ", "\t"}

\* str.lower()
lower(text) ==
    [i \in DOMAIN text |->
        IF \E j \in DOMAIN UpperCase : UpperCase[j] = text[i]
        THEN LowerCase[CHOOSE j \in DOMAIN UpperCase : UpperCase[j] = text[i]]
        ELSE text[i]]

\* str.strip()
strip(text) ==
    LET inked == {i \in DOMAIN text : text[i] \notin Whitespace}
    IN  IF inked = {} THEN <<>>
        ELSE SubSeq(text, CHOOSE i \in inked : \A j \in inked : i <= j,
                          CHOOSE i \in inked : \A j \in inked : i >= j)

\* the words of str.split(), as a set
split(text) ==
    {SubSeq(text, i, j) : <<i, j>> \in
        {ij \in (DOMAIN text) \X (DOMAIN text) :
            /\ ij[1] <= ij[2]
            /\ \A n \in ij[1]..ij[2] : text[n] \notin Whitespace
            /\ ij[1] = 1 \/ text[ij[1] - 1] \in Whitespace
            /\ ij[2] = Len(text) \/ text[ij[2] + 1] \in Whitespace}}

\* ------------------------------------------------ numbers, as exact fractions
RECURSIVE GCD(_, _)
GCD(a, b) == IF b = 0 THEN a ELSE GCD(b, a % b)

\* the fraction n/d in lowest terms, d > 0
Frac(n, d) ==
    LET a == IF n < 0 THEN -n ELSE n
        g == GCD(a, d)
    IN  [n |-> n \div g, d |-> d \div g]

Plus(x, y) == Frac(x.n * y.d + y.n * x.d, x.d * y.d)
Times(x, y) == Frac(x.n * y.n, x.d * y.d)
Less(x, y) == x.n * y.d < y.n * x.d
\* 1.0 / x for x > 0
Inverse(x) == Frac(x.d, x.n)

\* ------------------------------------------------------- the mapping engine
\* data/namaste.csv as the engine may find it: absent, or with these rows
\* (cells as written in the file, padding included)
NamasteRows ==
    <<[code |-> <<"N","1">>, display |-> <<"K","a","s","a">>,
      definition |-> <<"c","o","u","g","h">>,
      icd11_tm2_code |-> <<"C","A","2","3">>],
     [code |-> <<"N","2">>, display |-> <<" ","A","r","u","c","h","i">>,
      definition |-> <<"n","o"," ","a","p","p","e","t","i","t","e">>,
      icd11_tm2_code |-> <<"R","6","3",".","0">>],
     [code |-> <<"N","3">>, display |-> <<"G","u","l","m","a">>,
      definition |-> <<"l","u","m","p">>,
      icd11_tm2_code |-> <<>>],
     [code |-> <<"N","4">>, display |-> <<"A","r","s","h","a">>,
      definition |-> <<"p","i","l","e","s">>,
      icd11_tm2_code |-> <<"D","B","6","0">>]>>
NamasteFiles ==
    {[exists |-> FALSE, rows |-> <<>>], [exists |-> TRUE, rows |-> NamasteRows]}

\* data/icd11_codes.csv as the engine may find it
Icd11Rows ==
    <<[code |-> <<"C","A","2","3">>,
      title |-> <<"A","s","t","h","m","a">>,
      description |-> <<"w","h","e","e","z","e">>],
     [code |-> <<"R","6","3",".","0">>,
      title |-> <<"A","n","o","r","e","x","i","a">>,
      description |-> <<"l","o","s","s"," ","o","f"," ","a","p","p","e","t","i","t","e">>],
     [code |-> <<"R","5","0",".","9">>,
      title |-> <<"F","e","v","e","r">>,
      description |-> <<"f","e","v","e","r"," ","o","f"," ","u","n","k","n","o","w","n"," ","o","r","i","g","i","n">>],
     [code |-> <<"J","2","0",".","9">>,
      title |-> <<"A","c","u","t","e"," ","b","r","o","n","c","h","i","t","i","s">>,
      description |-> <<"c","o","u","g","h">>]>>
Icd11Files ==
    {[exists |-> FALSE, rows |-> <<>>], [exists |-> TRUE, rows |-> Icd11Rows]}

\* terms handed to suggest
t_kasa == <<"k","a","s","a">>
t_KASA_padded == <<" ","K","A","S","A"," ">>
t_n1 == <<"n","1">>
t_N1_tab == <<"N","1","\t">>
t_aruchi == <<"a","r","u","c","h","i">>
t_Gulma == <<"G","u","l","m","a">>
t_arsha == <<"a","r","s","h","a">>
t_kasa_roga == <<"k","a","s","a"," ","r","o","g","a">>
t_jwarakasa == <<"j","w","a","r","a","k","a","s","a">>
t_Jwara == <<"J","w","a","r","a">>
t_Amlapitta == <<"A","m","l","a","p","i","t","t","a">>
t_fever == <<"f","e","v","e","r">>
t_cough == <<"c","o","u","g","h">>
t_xyz == <<"x","y","z">>
t_empty == <<>>
t_acute_xyz == <<"a","c","u","t","e"," ","x","y","z">>
Terms ==
    {t_kasa, t_KASA_padded, t_n1, t_N1_tab, t_aruchi, t_Gulma, t_arsha,
     t_kasa_roga, t_jwarakasa, t_Jwara, t_Amlapitta, t_fever, t_cough, t_xyz,
     t_empty, t_acute_xyz}

\* the values of k the callers pass (the default, and a single result)
Ks == {1, 3}

\* the optional symptoms argument of suggest
s_high_fever == <<"h","i","g","h"," ","f","e","v","e","r">>
Symptoms == {<<>>, s_high_fever}

RECURSIVE AyushWrites(_)
\* the assignments to self.ayush_map that _load_ayush_mappings makes, in order
AyushWrites(rows) ==
    IF rows = <<>> THEN <<>>
    ELSE LET row == Head(rows)
             code == strip(row.code)
             display == strip(row.display)
             entry == [ayush |-> display, code |-> code,
                       icd_code |-> strip(row.icd11_tm2_code),
                       definition |-> strip(row.definition)]
         IN  (IF display # <<>>
              THEN <<[key |-> strip(lower(display)), entry |-> entry]>>
              ELSE <<>>)
             \o (IF code # <<>>
                 THEN <<[key |-> lower(code), entry |-> entry]>>
                 ELSE <<>>)
             \o AyushWrites(Tail(rows))

\* MappingEngine._load_ayush_mappings: a later assignment to a key replaces
\* the earlier one
load_ayush_mappings(file) ==
    LET writes == AyushWrites(file.rows)
    IN  [key \in {writes[i].key : i \in DOMAIN writes} |->
            writes[CHOOSE i \in DOMAIN writes :
                      /\ writes[i].key = key
                      /\ \A j \in DOMAIN writes :
                             writes[j].key = key => j <= i].entry]

\* MappingEngine._load_icd11_codes: the dict in insertion order, a repeated
\* code keeping its place and taking the later row
load_icd11_codes(file) ==
    LET rows == file.rows
        code(i) == strip(rows[i].code)
        first == {i \in DOMAIN rows :
                     /\ code(i) # <<>>
                     /\ \A j \in DOMAIN rows : code(j) = code(i) => i <= j}
        final(i) == CHOOSE j \in DOMAIN rows :
                        /\ code(j) = code(i)
                        /\ \A n \in DOMAIN rows : code(n) = code(i) => n <= j
        place(i) == Cardinality({j \in first : j <= i})
    IN  [p \in 1..Cardinality(first) |->
            LET i == CHOOSE i \in first : place(i) = p
            IN  [code |-> code(i), title |-> strip(rows[final(i)].title),
                 description |-> strip(rows[final(i)].description)]]

\* keyword_to_icd of rule_match, in the order of declaration
keyword_to_icd ==
    <<<<<<"a","m","l","a","p","i","t","t","a">>,
        <<"K","2","1",".","0">>>>,
      <<<<"a","a","m","l","a">>,
        <<"K","2","1",".","0">>>>,
      <<<<"k","a","s","a">>,
        <<"J","2","0",".","9">>>>,
      <<<<"s","h","w","a","s","a">>,
        <<"J","9","8",".","8">>>>,
      <<<<"j","w","a","r","a">>,
        <<"R","5","0",".","9">>>>,
      <<<<"s","h","o","t","h","a">>,
        <<"M","7","9",".","1">>>>,
      <<<<"a","r","u","c","h","i">>,
        <<"R","6","3",".","0">>>>,
      <<<<"a","m","a","v","a","t","a">>,
        <<"M","7","9",".","3">>>>,
      <<<<"p","a","n","d","u">>,
        <<"D","6","4",".","9">>>>,
      <<<<"k","a","m","a","l","a">>,
        <<"K","5","9",".","0">>>>,
      <<<<"a","t","i","s","a","r","a">>,
        <<"K","5","9",".","0">>>>,
      <<<<"g","r","a","h","a","n","i">>,
        <<"K","5","8",".","9">>>>,
      <<<<"c","h","h","a","r","d","i">>,
        <<"R","1","1">>>>,
      <<<<"v","i","b","a","n","d","h","a">>,
        <<"K","5","9",".","0">>>>,
      <<<<"p","r","a","m","e","h","a">>,
        <<"E","1","1",".","9">>>>,
      <<<<"a","p","a","s","m","a","r","a">>,
        <<"G","4","0",".","9">>>>,
      <<<<"s","h","i","r","o","s","h","u","l","a">>,
        <<"R","5","1">>>>,
      <<<<"a","r","d","h","a","v","a","b","h","e","d","a","k","a">>,
        <<"G","4","3",".","9">>>>,
      <<<<"n","e","t","r","a","r","o","g","a">>,
        <<"H","5","7",".","9">>>>,
      <<<<"t","i","m","i","r","a">>,
        <<"H","5","3",".","1">>>>>>

\* dict.get on self.icd11_map
icd11_info(code) ==
    icd11_map[CHOOSE i \in DOMAIN icd11_map : icd11_map[i].code = code]

in_icd11_map(code) == \E i \in DOMAIN icd11_map : icd11_map[i].code = code

\* an exact_match that looks the term up as it was typed
exact_match_AsTyped(term) ==
    LET term_lower == term
    IN  IF term_lower \notin DOMAIN ayush_map THEN None
        ELSE LET exact == ayush_map[term_lower]
                 icd_code == exact.icd_code
             IN  IF icd_code # <<>> /\ in_icd11_map(icd_code)
                 THEN [icd_code |-> icd_code,
                       icd_title |-> icd11_info(icd_code).title,
                       ayush_term |-> exact.ayush]
                 ELSE IF icd_code # <<>>
                 THEN [icd_code |-> icd_code, icd_title |-> icd_code,
                       ayush_term |-> exact.ayush]
                 ELSE [icd_code |-> exact.code, icd_title |-> exact.ayush,
                       ayush_term |-> exact.ayush]

\* MappingEngine.exact_match (icd_title of a code that is not in the ICD-11
\* file is "ICD-11 Code: " followed by the code; the prefix is left out)
exact_match(term) ==
    LET term_lower == lower(strip(term))
    IN  IF term_lower \notin DOMAIN ayush_map THEN None
        ELSE LET exact == ayush_map[term_lower]
                 icd_code == exact.icd_code
             IN  IF icd_code # <<>> /\ in_icd11_map(icd_code)
                 THEN [icd_code |-> icd_code,
                       icd_title |-> icd11_info(icd_code).title,
                       ayush_term |-> exact.ayush]
                 ELSE IF icd_code # <<>>
                 THEN [icd_code |-> icd_code, icd_title |-> icd_code,
                       ayush_term |-> exact.ayush]
                 ELSE [icd_code |-> exact.code, icd_title |-> exact.ayush,
                       ayush_term |-> exact.ayush]

\* the places in keyword_to_icd of the keywords the lower-cased term contains
MatchingKeywords(term) ==
    {i \in DOMAIN keyword_to_icd : Contains(keyword_to_icd[i][1], lower(term))}

\* a rule_match that takes the keyword declared last
rule_match_LastDeclared(term) ==
    LET matching == MatchingKeywords(term)
    IN  IF matching = {} THEN None
        ELSE LET first == CHOOSE i \in matching : \A j \in matching : i >= j
                 matched_icd == keyword_to_icd[first][2]
             IN  IF in_icd11_map(matched_icd)
                 THEN [icd_code |-> matched_icd,
                       icd_title |-> icd11_info(matched_icd).title,
                       keyword |-> keyword_to_icd[first][1]]
                 ELSE None

\* MappingEngine.rule_match: the first keyword of the table that the term
\* contains, and only if its code is in icd11_map
rule_match(term) ==
    LET matching == MatchingKeywords(term)
    IN  IF matching = {} THEN None
        ELSE LET first == CHOOSE i \in matching : \A j \in matching : i <= j
                 matched_icd == keyword_to_icd[first][2]
             IN  IF in_icd11_map(matched_icd)
                 THEN [icd_code |-> matched_icd,
                       icd_title |-> icd11_info(matched_icd).title,
                       keyword |-> keyword_to_icd[first][1]]
                 ELSE None

Min(a, b) == IF a < b THEN a ELSE b

\* list.sort(key=...) on a list of dicts with a numeric "key": stable
StableSort(list) ==
    LET before(j, i) == \/ Less(list[j].key, list[i].key)
                        \/ (list[j].key = list[i].key /\ j < i)
        rank(i) == Cardinality({j \in DOMAIN list : before(j, i)}) + 1
    IN  [p \in DOMAIN list |-> list[CHOOSE i \in DOMAIN list : rank(i) = p]]

Zero == Frac(0, 1)
One == Frac(1, 1)

\* what the FAISS index answers to faiss.query: it raises, or it returns
\* distances
FaissAnswers ==
    {[ok |-> FALSE, distances |-> <<>>],
     [ok |-> TRUE, distances |-> <<Frac(3, 2), Zero>>],
     [ok |-> TRUE, distances |-> <<Zero, Zero>>]}

s_em_open == <<"<","e","m"," ","c","l","a","s","s","=","'","f","o","u","n","d","'",">">>
s_em_close == <<"<","/","e","m",">">>
s_XY1 == <<"X","Y","1">>
s_tagged_title == s_em_open \o <<"F","l","u">> \o s_em_close

\* what the WHO ICD-11 API answers to search_entities: it raises, or it
\* returns destinationEntities
ApiAnswers ==
    {[ok |-> FALSE, entities |-> <<>>],
     [ok |-> TRUE, entities |-> <<>>],
     [ok |-> TRUE, entities |-> <<[theCode |-> s_XY1, title |-> s_tagged_title]>>]}

\* what the reranker answers to predict_proba: it raises, or it returns the
\* probability of the positive class per candidate
RerankerAnswers ==
    {[ok |-> FALSE, probs |-> <<>>],
     [ok |-> TRUE, probs |-> <<One, Zero, Frac(1, 2), One, Zero, Frac(1, 2)>>]}

ExternalAnswers ==
    [faiss : FaissAnswers, api : ApiAnswers, reranker : RerankerAnswers]

RECURSIVE replace(_, _)
\* str.replace(old, "")
replace(text, old) ==
    IF Len(text) < Len(old) THEN text
    ELSE IF SubSeq(text, 1, Len(old)) = old
    THEN replace(SubSeq(text, Len(old) + 1, Len(text)), old)
    ELSE <<Head(text)>> \o replace(Tail(text), old)

\* MappingEngine.embedding_candidates: text match over icd11_map, sorted by
\* distance, the first distances replaced by those of FAISS when it is loaded
embedding_candidates(term, k, faiss_answer) ==
    LET term_lower == lower(term)
        title(i) == lower(icd11_map[i].title)
        description(i) == lower(icd11_map[i].description)
        in_title(i) == Contains(term_lower, title(i))
        in_description(i) == Contains(term_lower, description(i))
        word_in_title(i) ==
            \E word \in split(term_lower) : Contains(word, title(i))
        matched == {i \in DOMAIN icd11_map :
                       in_title(i) \/ in_description(i) \/ word_in_title(i)}
        \* match_score, in halves
        match_score(i) == (IF in_title(i) THEN 4 ELSE 0)
                          + (IF in_description(i) THEN 2 ELSE 0)
                          + (IF word_in_title(i) THEN 1 ELSE 0)
        place(i) == Cardinality({j \in matched : j <= i})
        candidates ==
            [p \in 1..Cardinality(matched) |->
                LET i == CHOOSE i \in matched : place(i) = p
                IN  [icd_code |-> icd11_map[i].code,
                     icd_title |-> icd11_map[i].title,
                     distance |-> Frac(20 - match_score(i), 2),
                     confidence |-> Zero,
                     step |-> "csv_text_match",
                     source |-> "icd11_csv",
                     key |-> Frac(20 - match_score(i), 2)]]
        sorted == StableSort(candidates)
        faiss_results ==
            SubSeq(faiss_answer.distances, 1,
                   Min(Len(faiss_answer.distances), Min(k * 2, Len(sorted))))
        reranked ==
            IF faiss_loaded /\ Len(sorted) > 0 /\ faiss_answer.ok
            THEN [i \in DOMAIN sorted |->
                     IF i <= k * 2 /\ i <= Len(faiss_results)
                     THEN [sorted[i] EXCEPT !.distance = faiss_results[i],
                                            !.step = "csv_faiss_hybrid"]
                     ELSE sorted[i]]
            ELSE sorted
    IN  SubSeq(reranked, 1, Min(k, Len(reranked)))

\* a confidence that adds the two scores, without weights and without clamp
compute_confidence_Unweighted(rule_score, distance, reranker_prob) ==
    LET dist_score == Inverse(Plus(One, distance))
        combined == Plus(rule_score, dist_score)
    IN  IF reranker_prob # None
        THEN Plus(combined, reranker_prob)
        ELSE combined

\* MappingEngine.compute_confidence
compute_confidence(rule_score, distance, reranker_prob) ==
    LET dist_score == Inverse(Plus(One, distance))
        combined == Plus(Times(Frac(6, 10), rule_score),
                         Times(Frac(4, 10), dist_score))
        adjusted == IF reranker_prob # None
                    THEN Plus(Times(Frac(7, 10), combined),
                              Times(Frac(3, 10), reranker_prob))
                    ELSE combined
    IN  IF Less(adjusted, Zero) THEN Zero
        ELSE IF Less(One, adjusted) THEN One
        ELSE adjusted

\* one entry of the "results" of suggest, with the step and the source of
\* its provenance
Result(icd_code, icd_title, confidence, step, source) ==
    [icd_code |-> icd_code, icd_title |-> icd_title,
     confidence |-> confidence, step |-> step, source |-> source]

\* suggest, the API fallback: one candidate per entity, the highlighting
\* tags taken out of its title
ApiFallback(entities) ==
    [i \in DOMAIN entities |->
        [icd_code |-> entities[i].theCode,
         icd_title |-> replace(replace(entities[i].title, s_em_open),
                               s_em_close),
         distance |-> Frac(1, 2),
         confidence |-> Frac(8, 10),
         step |-> "api_fallback",
         source |-> "who_icd11_api",
         key |-> Zero]]

\* a step 3 that asks the API whether or not a service is given
Candidates_AlwaysFallsBack(local, k, api) ==
    IF local = <<>> /\ api.ok
    THEN ApiFallback(SubSeq(api.entities, 1, Min(k, Len(api.entities))))
    ELSE local

\* suggest, step 3: the local candidates, or those of the API when there is
\* no local one, a service is given and its call does not raise
Candidates(local, k, api) ==
    IF local = <<>> /\ icd11_service /\ api.ok
    THEN ApiFallback(SubSeq(api.entities, 1, Min(k, Len(api.entities))))
    ELSE local

\* a step 4 that keeps the confidence a candidate of the API came with
Scored_KeepsNominal(candidates, rerankerAnswer) ==
    [i \in DOMAIN candidates |->
        LET conf == IF candidates[i].source = "who_icd11_api"
                    THEN candidates[i].confidence
                    ELSE compute_confidence(Zero, candidates[i].distance,
                        IF reranker /\ Len(candidates) > 1 /\ rerankerAnswer.ok
                        THEN rerankerAnswer.probs[i]
                        ELSE None)
        IN  [candidates[i] EXCEPT !.confidence = conf,
                                  !.key = Frac(0 - conf.n, conf.d)]]

\* suggest, step 4: every candidate gets its confidence, from the distance
\* and, when the reranker is loaded and answers, from its probability
Scored(candidates, rerankerAnswer) ==
    [i \in DOMAIN candidates |->
        LET conf == compute_confidence(Zero, candidates[i].distance,
                        IF reranker /\ Len(candidates) > 1 /\ rerankerAnswer.ok
                        THEN rerankerAnswer.probs[i]
                        ELSE None)
        IN  [candidates[i] EXCEPT !.confidence = conf,
                                  !.key = Frac(0 - conf.n, conf.d)]]

\* suggest, the end: sorted by confidence, the best first, and cut to k
TopK(sorted, k) ==
    [i \in 1..Min(k, Len(sorted)) |->
        Result(sorted[i].icd_code, sorted[i].icd_title, sorted[i].confidence,
               "faiss", sorted[i].source)]

\* suggest, steps 3 and 4
VectorOutcome(candidates, k, rerankerAnswer) ==
    IF candidates = <<>>
    THEN [type |-> "faiss", results |-> <<>>,
          provenance |-> [step |-> "faiss", error |-> "No candidates found"],
          consulted |-> <<"exact", "rule", "faiss">>]
    ELSE [type |-> "faiss",
          results |-> TopK(StableSort(Scored(candidates, rerankerAnswer)), k),
          provenance |-> [step |-> "faiss",
                          candidates_considered |-> Len(candidates)],
          consulted |-> <<"exact", "rule", "faiss">>]

\* a step 2 that takes the distance of a rule match for zero
Outcome_RuleDistanceZero(exact, rule, vector) ==
    IF exact # None
    THEN [type |-> "exact",
          results |-> <<Result(exact.icd_code, exact.icd_title,
                               Frac(99, 100), "exact", "namaste_csv")>>,
          provenance |-> None, consulted |-> <<"exact">>]
    ELSE IF rule # None
    THEN [type |-> "rule",
          results |-> <<Result(rule.icd_code, rule.icd_title,
                               compute_confidence(One, Zero, None),
                               "rule", "csv_keyword_mapping")>>,
          provenance |-> None, consulted |-> <<"exact", "rule">>]
    ELSE vector

\* suggest, steps 1 and 2, given what the three matchers found
Outcome(exact, rule, vector) ==
    IF exact # None
    THEN [type |-> "exact",
          results |-> <<Result(exact.icd_code, exact.icd_title,
                               Frac(99, 100), "exact", "namaste_csv")>>,
          provenance |-> None, consulted |-> <<"exact">>]
    ELSE IF rule # None
    THEN [type |-> "rule",
          results |-> <<Result(rule.icd_code, rule.icd_title,
                               compute_confidence(One, Frac(1, 10), None),
                               "rule", "csv_keyword_mapping")>>,
          provenance |-> None, consulted |-> <<"exact", "rule">>]
    ELSE vector

\* the text the third step searches for
query_text(term, symptoms) ==
    IF symptoms # <<>> THEN term \o <<" ">> \o symptoms ELSE term

\* MappingEngine.suggest(term, symptoms, k), given what the external
\* components answer; "consulted" lists the steps it went through
suggest(term, symptoms, k, answers) ==
    Outcome(exact_match(term), rule_match(term),
            VectorOutcome(
                Candidates(embedding_candidates(query_text(term, symptoms),
                                                k * 2, answers.faiss),
                           k, answers.api),
                k, answers.reranker))

\* the calls of suggest a caller may make
SuggestCalls ==
    [term : Terms, symptoms : Symptoms, k : Ks, answers : ExternalAnswers]

\* MappingEngine.__init__: the catalogs are loaded from the data files
\* (no call of suggest has ended)
MappingEngine(namaste, icd11, faiss, rerankerFile, service) ==
    /\ ayush_map = load_ayush_mappings(namaste)
    /\ icd11_map = load_icd11_codes(icd11)
    /\ faiss_loaded = faiss
    /\ reranker = rerankerFile
    /\ icd11_service = service
    /\ lastSuggest = None

\* the engine as OrchestratorService.initialize builds it when both data
\* files are there and neither a FAISS index nor a reranker has been built:
\* it is always given an ICD-11 API service
DefaultEngine ==
    /\ MappingEngine([exists |-> TRUE, rows |-> NamasteRows],
                     [exists |-> TRUE, rows |-> Icd11Rows], FALSE, FALSE, TRUE)
    /\ suggestCall = None

\* the process starts without config/mapping_resources.yml
Init == Boot([kind |-> "absent", resources |-> {}]) /\ DefaultEngine

\* the process starts with any of the configuration files
InitAnyConfig == (\E config \in ConfigFiles : Boot(config)) /\ DefaultEngine

\* the process starts with any data files, with or without FAISS index,
\* reranker and ICD-11 API service
InitAnyEngine ==
    /\ Boot([kind |-> "absent", resources |-> {}])
    /\ \E namaste \in NamasteFiles, icd11 \in Icd11Files,
          faiss \in BOOLEAN, rerankerFile \in BOOLEAN, service \in BOOLEAN :
           MappingEngine(namaste, icd11, faiss, rerankerFile, service)
    /\ suggestCall \in SuggestCalls

\* the call of suggest
call_suggest ==
    /\ suggestCall # None
    /\ lastSuggest = None
    /\ lastSuggest' = suggest(suggestCall.term, suggestCall.symptoms,
                              suggestCall.k, suggestCall.answers)
    /\ UNCHANGED <<guardVars, now, audit, audit_errors, reviewVars,
                   encounterVars, backgroundVars, ayush_map, icd11_map, faiss_loaded, reranker,
                   icd11_service, suggestCall>>

NextResolve == call_suggest

\* one call of suggest, for every engine, term and answer
SpecResolve == InitAnyEngine /\ [][NextResolve]_vars

\* the clock moves on
Tick ==
    /\ now + TickStep <= MaxTime
    /\ now' = now + TickStep
    /\ UNCHANGED <<outsideGuard, sinkVars, MAPPING_DATA_RESOURCES, mode, blocked_write_count, last_reset,
                   audit, audit_errors, notified, pc, frame, opHist, lastCall,
                   raised, streak>>

\* safe_write on a resource that is not protected: returns True
safe_write_allowed(t, resource) ==
    /\ pc[t] = "idle"
    /\ ~is_mapping_resource(resource)
    /\ lastCall' = [resource |-> resource, result |-> "True", audit_id |-> 0,
                    count0 |-> blocked_write_count]
    /\ UNCHANGED <<outsideGuard, sinkVars, MAPPING_DATA_RESOURCES, mode, blocked_write_count, last_reset,
                   now, audit, audit_errors, notified, pc, frame, opHist, raised,
                   streak>>

\* a safe_write that lets the failure of the audit store end the call
safe_write_blocked_AuditFailureAborts(t, resource, dbOk) ==
    /\ pc[t] = "idle"
    /\ is_mapping_resource(resource)
    /\ notified[BlockedTitle] < MaxCalls
    /\ ~dbOk => audit_errors < MaxAuditFailures
    /\ LET logged == audit_log(BlockedAuditRow, dbOk)
       IN  /\ audit' = logged.rows
           /\ audit_errors' = logged.errors
           /\ IF dbOk
              THEN /\ frame' = [frame EXCEPT ![t] =
                         [resource |-> resource, audit_id |-> logged.id,
                          count0 |-> blocked_write_count, mode0 |-> mode,
                          tmp |-> 0]]
                   /\ notified' = notify_admin(notified, BlockedTitle)
                   /\ pc' = [pc EXCEPT ![t] = "load"]
                   /\ lastCall' = NoCall
              ELSE /\ lastCall' = [resource |-> resource, result |-> "Exception",
                                   audit_id |-> logged.id,
                                   count0 |-> blocked_write_count]
                   /\ UNCHANGED <<frame, notified, pc>>
    /\ UNCHANGED <<outsideGuard, sinkVars, MAPPING_DATA_RESOURCES, mode, blocked_write_count, last_reset,
                   now, opHist, raised, streak>>

\* safe_write on a protected resource, up to the call of
\* increment_blocked_writes: audit_log, then notify_admin
safe_write_blocked(t, resource, dbOk) ==
    /\ pc[t] = "idle"
    /\ is_mapping_resource(resource)
    /\ notified[BlockedTitle] < MaxCalls
    /\ ~dbOk => audit_errors < MaxAuditFailures
    /\ LET logged == audit_log(BlockedAuditRow, dbOk)
       IN  /\ audit' = logged.rows
           /\ audit_errors' = logged.errors
           /\ frame' = [frame EXCEPT ![t] =
                  [resource |-> resource, audit_id |-> logged.id,
                   count0 |-> blocked_write_count, mode0 |-> mode, tmp |-> 0]]
    /\ notified' = notify_admin(notified, BlockedTitle)
    /\ pc' = [pc EXCEPT ![t] = "load"]
    /\ lastCall' = NoCall
    /\ UNCHANGED <<outsideGuard, sinkVars, MAPPING_DATA_RESOURCES, mode, blocked_write_count, last_reset,
                   now, opHist, raised, streak>>

\* increment_blocked_writes, `self._blocked_write_count += 1`: the read
increment_load(t) ==
    /\ pc[t] = "load"
    /\ frame' = [frame EXCEPT ![t].tmp = blocked_write_count]
    /\ pc' = [pc EXCEPT ![t] = "store"]
    /\ UNCHANGED <<outsideGuard, sinkVars, MAPPING_DATA_RESOURCES, mode, blocked_write_count, last_reset,
                   now, audit, audit_errors, notified, opHist, lastCall, raised,
                   streak>>

\* increment_blocked_writes, `self._blocked_write_count += 1`: the write
increment_store(t) ==
    /\ pc[t] = "store"
    /\ blocked_write_count' = frame[t].tmp + 1
    /\ pc' = [pc EXCEPT ![t] = "check"]
    /\ UNCHANGED <<outsideGuard, sinkVars, MAPPING_DATA_RESOURCES, mode, last_reset, now, audit,
                   audit_errors, notified, frame, opHist, lastCall, raised, streak>>

\* the threshold test with `>` written for `>=`
TooManyBlockedWrites_StrictlyMore ==
    /\ blocked_write_count > PauseThreshold
    /\ now - last_reset < WindowSeconds

\* the threshold test of increment_blocked_writes
TooManyBlockedWrites ==
    /\ blocked_write_count >= PauseThreshold
    /\ now - last_reset < WindowSeconds

\* an increment_blocked_writes that pauses only when the counter arrives at
\* the threshold, not above it
increment_check_OnlyAtThreshold(t) ==
    /\ pc[t] = "check"
    /\ IF TooManyBlockedWrites /\ blocked_write_count = PauseThreshold
       THEN /\ mode' = "paused"
            /\ notified' = notify_admin(notified, PausedTitle)
       ELSE UNCHANGED <<mode, notified>>
    /\ pc' = [pc EXCEPT ![t] = "idle"]
    /\ frame' = [frame EXCEPT ![t] = NoFrame]
    /\ lastCall' = [resource |-> frame[t].resource, result |-> "PermissionError",
                    audit_id |-> frame[t].audit_id, count0 |-> frame[t].count0]
    /\ raised' = raised + 1
    /\ streak' = Append(streak, [at |-> now, mode0 |-> frame[t].mode0])
    /\ UNCHANGED <<outsideGuard, sinkVars, MAPPING_DATA_RESOURCES, blocked_write_count, last_reset, now,
                   audit, audit_errors, opHist>>

\* increment_blocked_writes: the threshold test and self.pause(); then
\* safe_write raises PermissionError
increment_check(t) ==
    /\ pc[t] = "check"
    /\ IF TooManyBlockedWrites
       THEN /\ mode' = "paused"
            /\ notified' = notify_admin(notified, PausedTitle)
       ELSE UNCHANGED <<mode, notified>>
    /\ pc' = [pc EXCEPT ![t] = "idle"]
    /\ frame' = [frame EXCEPT ![t] = NoFrame]
    /\ lastCall' = [resource |-> frame[t].resource, result |-> "PermissionError",
                    audit_id |-> frame[t].audit_id, count0 |-> frame[t].count0]
    /\ raised' = raised + 1
    /\ streak' = Append(streak, [at |-> now, mode0 |-> frame[t].mode0])
    /\ UNCHANGED <<outsideGuard, sinkVars, MAPPING_DATA_RESOURCES, blocked_write_count, last_reset, now,
                   audit, audit_errors, opHist>>

\* OrchestratorState.pause(), called by the operator (POST /pause)
pause ==
    /\ notified[PausedTitle] < MaxPauses
    /\ mode' = "paused"
    /\ notified' = notify_admin(notified, PausedTitle)
    /\ opHist' = <<"-", "pause">>
    /\ lastCall' = NoCall
    /\ streak' = <<>>
    /\ pauseCall' = "returned"
    /\ UNCHANGED <<outsideGuard, sink_errors, MAPPING_DATA_RESOURCES, blocked_write_count,
                   last_reset, now, audit, audit_errors, pc, frame, raised>>

\* a resume() that also clears the counter and restarts the window
resume_ResetsCounter ==
    /\ mode' = "active"
    /\ blocked_write_count' = 0
    /\ last_reset' = now
    /\ opHist' = <<IF streak = <<>> THEN opHist[2] ELSE "safe_write", "resume">>
    /\ lastCall' = NoCall
    /\ streak' = <<>>
    /\ UNCHANGED <<outsideGuard, sinkVars, MAPPING_DATA_RESOURCES, now, audit, audit_errors, notified,
                   pc, frame, raised>>

\* OrchestratorState.resume()
resume ==
    /\ mode' = "active"
    /\ opHist' = <<IF streak = <<>> THEN opHist[2] ELSE "safe_write", "resume">>
    /\ lastCall' = NoCall
    /\ streak' = <<>>
    /\ UNCHANGED <<outsideGuard, sinkVars, MAPPING_DATA_RESOURCES, blocked_write_count, last_reset, now,
                   audit, audit_errors, notified, pc, frame, raised>>

\* OrchestratorState.set_manual()
set_manual ==
    /\ mode' = "manual"
    /\ opHist' = <<"-", "set_manual">>
    /\ lastCall' = NoCall
    /\ streak' = <<>>
    /\ UNCHANGED <<outsideGuard, sinkVars, MAPPING_DATA_RESOURCES, blocked_write_count, last_reset, now,
                   audit, audit_errors, notified, pc, frame, raised>>

\* OrchestratorState.reset_blocked_writes()
reset_blocked_writes ==
    /\ blocked_write_count' = 0
    /\ last_reset' = now
    /\ opHist' = <<"-", "reset_blocked_writes">>
    /\ lastCall' = NoCall
    /\ streak' = <<>>
    /\ UNCHANGED <<outsideGuard, sinkVars, MAPPING_DATA_RESOURCES, mode, now, audit, audit_errors,
                   notified, pc, frame, raised>>

\* safe_write on a protected resource whose notify_admin raises (json.dumps
\* meets a value it cannot serialise, or a logging handler raises): nothing
\* catches the exception, it ends the call before increment_blocked_writes
safe_write_sink_fails(t, resource, dbOk) ==
    /\ pc[t] = "idle"
    /\ is_mapping_resource(resource)
    /\ sink_errors < MaxSinkFailures
    /\ ~dbOk => audit_errors < MaxAuditFailures
    /\ LET logged == audit_log(BlockedAuditRow, dbOk)
       IN  /\ audit' = logged.rows
           /\ audit_errors' = logged.errors
           /\ lastCall' = [resource |-> resource, result |-> "Exception",
                           audit_id |-> logged.id,
                           count0 |-> blocked_write_count]
    /\ sink_errors' = sink_errors + 1
    /\ UNCHANGED <<outsideGuard, pauseCall, MAPPING_DATA_RESOURCES, mode, blocked_write_count,
                   last_reset, now, notified, pc, frame, opHist, raised, streak>>

\* increment_blocked_writes whose self.pause() meets a failing sink: the
\* mode is set, then the exception leaves safe_write in place of the
\* PermissionError
increment_check_sink_fails(t) ==
    /\ pc[t] = "check"
    /\ TooManyBlockedWrites
    /\ sink_errors < MaxSinkFailures
    /\ mode' = "paused"
    /\ sink_errors' = sink_errors + 1
    /\ pc' = [pc EXCEPT ![t] = "idle"]
    /\ frame' = [frame EXCEPT ![t] = NoFrame]
    /\ lastCall' = [resource |-> frame[t].resource, result |-> "Exception",
                    audit_id |-> frame[t].audit_id, count0 |-> frame[t].count0]
    /\ UNCHANGED <<outsideGuard, pauseCall, MAPPING_DATA_RESOURCES, blocked_write_count,
                   last_reset, now, audit, audit_errors, notified, opHist,
                   raised, streak>>

\* OrchestratorState.pause() whose notify_admin raises: the mode is already
\* set, the exception goes to the caller of pause()
pause_sink_fails ==
    /\ sink_errors < MaxSinkFailures
    /\ mode' = "paused"
    /\ sink_errors' = sink_errors + 1
    /\ pauseCall' = "raised"
    /\ opHist' = <<"-", "pause">>
    /\ lastCall' = NoCall
    /\ streak' = <<>>
    /\ UNCHANGED <<outsideGuard, MAPPING_DATA_RESOURCES, blocked_write_count, last_reset, now,
                   audit, audit_errors, notified, pc, frame, raised>>

\* one caller and the operator: every safe_write runs to its end before
\* the next operation starts
Sequential(resources) ==
    \/ Tick
    \/ \E resource \in resources : safe_write_allowed(T1, resource)
    \/ \E resource \in resources, dbOk \in BOOLEAN :
           safe_write_blocked(T1, resource, dbOk)
    \/ increment_load(T1)
    \/ increment_store(T1)
    \/ increment_check(T1)
    \/ AllIdle /\ pause
    \/ AllIdle /\ resume
    \/ AllIdle /\ set_manual
    \/ AllIdle /\ reset_blocked_writes

Next == Sequential({s_namaste_csv, s_encounters})

Spec == Init /\ [][Next]_vars

\* the guard under every configuration file and every resource string
NextGuard ==
    \/ \E resource \in Resources : safe_write_allowed(T1, resource)
    \/ \E resource \in Resources, dbOk \in BOOLEAN :
           safe_write_blocked(T1, resource, dbOk)
    \/ increment_load(T1)
    \/ increment_store(T1)
    \/ increment_check(T1)
    \/ AllIdle /\ pause
    \/ AllIdle /\ resume
    \/ AllIdle /\ set_manual

SpecGuard == InitAnyConfig /\ [][NextGuard]_vars

\* callers on two threads that run safe_write on a protected resource at
\* the same time, in any interleaving
NextRace ==
    \/ Tick
    \/ \E t \in Threads : safe_write_blocked(t, s_namaste_csv, TRUE)
    \/ \E t \in Threads : increment_load(t)
    \/ \E t \in Threads : increment_store(t)
    \/ \E t \in Threads : increment_check(t)

SpecRace == Init /\ [][NextRace]_vars

\* one caller and the operator, with a notification sink that may fail
NextSink ==
    \/ safe_write_blocked(T1, s_namaste_csv, TRUE)
    \/ safe_write_sink_fails(T1, s_namaste_csv, TRUE)
    \/ increment_load(T1)
    \/ increment_store(T1)
    \/ increment_check(T1)
    \/ increment_check_sink_fails(T1)
    \/ AllIdle /\ pause
    \/ AllIdle /\ pause_sink_fails
    \/ AllIdle /\ resume
    \/ AllIdle /\ reset_blocked_writes

SpecSink == Init /\ [][NextSink]_vars

\* ------------------------------------------------ the orchestrator service

\* notes of encounters; the words are letters only, so that the \b of the
\* patterns falls where split() cuts
n_kasa == <<"k","a","s","a">>
n_mild_cold == <<"m","i","l","d"," ","c","o","l","d">>
n_Fever_kasa == <<"F","e","v","e","r"," ","k","a","s","a">>
n_Patient_kasa == <<"P","a","t","i","e","n","t"," ","k","a","s","a">>

\* payloads of encounter.created events
Encounters ==
    {[encounter_id |-> "enc1", notes |-> n_kasa],
     [encounter_id |-> "enc1", notes |-> n_mild_cold],
     [encounter_id |-> "enc2", notes |-> n_Fever_kasa],
     [encounter_id |-> "enc2", notes |-> n_Patient_kasa]}

\* extract_ayush_terms: `[:5]`
MaxTerms == 5

\* a threshold of 0.1
LowConfidence_Tenth == Frac(1, 10)

\* process_encounter: `s.get('confidence', 0) < 0.7`
LowConfidence == Frac(7, 10)

s_pitta == <<"p","i","t","t","a">>
s_vata == <<"v","a","t","a">>
s_kapha == <<"k","a","p","h","a">>
s_roga == <<"r","o","g","a">>
s_vyadhi == <<"v","y","a","d","h","i">>
s_amlapitta == <<"a","m","l","a","p","i","t","t","a">>
s_jwara == <<"j","w","a","r","a">>
s_kasa == <<"k","a","s","a">>
s_shwasa == <<"s","h","w","a","s","a">>

\* the word, whatever its letter case, is two or more letters followed by
\* the suffix
HasSuffix(word, suffix) ==
    /\ Len(word) >= Len(suffix) + 2
    /\ SubSeq(lower(word), Len(word) - Len(suffix) + 1, Len(word)) = suffix

\* the patterns of extract_ayush_terms, matched with re.IGNORECASE
MatchesPattern(word) ==
    \/ \E suffix \in {s_pitta, s_vata, s_kapha} : HasSuffix(word, suffix)
    \/ \E suffix \in {s_roga, s_vyadhi} : HasSuffix(word, suffix)
    \/ lower(word) \in {s_amlapitta, s_jwara, s_kasa, s_shwasa}

\* word[0].isupper()
isupper(char) == \E j \in DOMAIN UpperCase : UpperCase[j] = char

\* extract_ayush_terms before the cut: the pattern matches and the
\* capitalised words longer than three, without duplicates
MatchedTerms(notes) ==
    {word \in split(notes) :
        \/ MatchesPattern(word)
        \/ (Len(word) > 3 /\ isupper(word[1]))}

\* extract_ayush_terms: list(set(terms))[:5] keeps any five of them
extract_ayush_terms(notes) ==
    {terms \in SUBSET MatchedTerms(notes) :
        Cardinality(terms) = Min(MaxTerms, Cardinality(MatchedTerms(notes)))}

\* the rows process_encounter hands to audit_log
SkippedAuditRow(encounter_id) ==
    [action |-> "encounter_skipped", actor |-> "orchestrator_agent",
     status |-> "blocked", attempted_write |-> FALSE,
     encounter_id |-> encounter_id]
SuggestedAuditRow(encounter_id) ==
    [action |-> "mapping_suggested", actor |-> "orchestrator_agent",
     status |-> "success", attempted_write |-> FALSE,
     encounter_id |-> encounter_id]

\* the event process_encounter publishes
SuggestedEvent(encounter_id) ==
    [topic |-> "mapping.suggested", encounter_id |-> encounter_id]

\* what the ICD-11 API answers to the calls of one process_encounter (the
\* engine of the service has no FAISS index and no reranker)
EncounterAnswers ==
    {answers \in ExternalAnswers : ~answers.faiss.ok /\ ~answers.reranker.ok}

\* an is_active() that holds in every mode but paused
is_active_NotPaused == mode # "paused"

\* OrchestratorState.is_active()
is_active == mode = "active"

\* the ghost record of a process_encounter call
EncounterCall(encounter, terms, outcomes, storeOk) ==
    [encounter_id |-> encounter.encounter_id, mode0 |-> mode,
     op0 |-> opHist[2], terms |-> terms, outcomes |-> outcomes,
     audit0 |-> Len(audit), queue0 |-> Len(review_queue),
     published0 |-> Len(published), calls0 |-> suggest_calls,
     storeOk |-> storeOk]

\* process_encounter while the orchestrator is not active: audit_log is
\* called once (and may fail: dbOk = FALSE), nothing else is done
process_encounter_skipped(encounter, dbOk) ==
    /\ encounters < MaxEncounters
    /\ ~is_active
    /\ ~dbOk => audit_errors < MaxAuditFailures
    /\ encounters' = encounters + 1
    /\ LET logged == audit_log(SkippedAuditRow(encounter.encounter_id), dbOk)
       IN  /\ audit' = logged.rows
           /\ audit_errors' = logged.errors
    /\ lastEncounter' = EncounterCall(encounter, {}, {}, TRUE)
    /\ UNCHANGED <<guardVars, now, reviewVars, engineVars, backgroundVars,
                   published, suggest_calls>>

\* process_encounter while the orchestrator is active: the terms are
\* extracted and suggested for, the suggestions are audited, a review task
\* is opened when one of them has a confidence below 0.7 (the store may
\* refuse it: storeOk), and the event is published (unless Redis is not
\* available: busOk)
process_encounter(encounter, answers, storeOk, busOk, dbOk) ==
    /\ encounters < MaxEncounters
    /\ is_active
    /\ ~dbOk => audit_errors < MaxAuditFailures
    /\ encounters' = encounters + 1
    /\ \E terms \in extract_ayush_terms(encounter.notes) :
        LET outcomes == {<<term, suggest(term, <<>>, 3, answers).results>> :
                            term \in terms}
            low_confidence_suggestions ==
                \E outcome \in outcomes : \E i \in DOMAIN outcome[2] :
                    Less(outcome[2][i].confidence, LowConfidence)
        IN  /\ lastEncounter' = EncounterCall(encounter, terms, outcomes, storeOk)
            /\ IF terms = {}
               THEN /\ dbOk
                    /\ UNCHANGED <<audit, audit_errors, reviewVars, published,
                                   suggest_calls>>
               ELSE /\ suggest_calls' = suggest_calls + Cardinality(terms)
                    /\ LET logged == audit_log(
                               SuggestedAuditRow(encounter.encounter_id), dbOk)
                       IN  /\ audit' = logged.rows
                           /\ audit_errors' = logged.errors
                    /\ IF ~low_confidence_suggestions
                       THEN UNCHANGED <<review_queue, store_errors>>
                       ELSE IF storeOk
                       THEN /\ Len(review_queue) < MaxTasks
                            /\ review_queue' = Append(review_queue,
                                   ReviewQueue(encounter.encounter_id,
                                               "low_confidence", "normal"))
                            /\ UNCHANGED store_errors
                       ELSE /\ store_errors < MaxStoreFailures
                            /\ store_errors' = store_errors + 1
                            /\ UNCHANGED review_queue
                    /\ published' =
                           IF busOk
                           THEN Append(published,
                                    SuggestedEvent(encounter.encounter_id))
                           ELSE published
                    /\ UNCHANGED <<rq, resolves, resolved_ok>>
    /\ UNCHANGED <<guardVars, now, engineVars, backgroundVars>>

\* the orchestrator service under an operator who pauses and resumes; the
\* audit store may fail under a skipped encounter, Redis is there
NextEncounter ==
    \/ \E encounter \in Encounters, dbOk \in BOOLEAN :
           process_encounter_skipped(encounter, dbOk)
    \/ \E encounter \in Encounters, answers \in EncounterAnswers,
          storeOk \in BOOLEAN :
           process_encounter(encounter, answers, storeOk, TRUE, TRUE)
    \/ pause
    \/ resume
    \/ set_manual

SpecEncounter == Init /\ [][NextEncounter]_vars

\* suggest(term) gets as far as `await self.icd11_service.search_entities`,
\* the one place where a process_encounter call gives up the event loop
AwaitsApi(term) ==
    /\ exact_match(term) = None
    /\ rule_match(term) = None
    /\ embedding_candidates(term, 6, [ok |-> FALSE, distances |-> <<>>]) = <<>>
    /\ icd11_service

\* process_encounter as a coroutine, up to the await at which it is
\* suspended: the mode is tested, the terms are extracted, and suggest for
\* one of them waits for the ICD-11 API (a call none of whose terms gets
\* that far runs to its end without giving up the event loop)
process_encounter_starts(c, encounter) ==
    /\ inflight[c] = NoFlight
    /\ encounters < MaxEncounters
    /\ is_active
    /\ encounters' = encounters + 1
    /\ \E terms \in extract_ayush_terms(encounter.notes) :
           /\ \E term \in terms : AwaitsApi(term)
           /\ inflight' = [inflight EXCEPT ![c] =
                  [pc |-> "awaiting", encounter |-> encounter, terms |-> terms]]
    /\ UNCHANGED <<guardVars, now, audit, audit_errors, reviewVars, engineVars,
                   indexVars, loopVars, workerVars, published, suggest_calls,
                   lastEncounter>>

\* process_encounter, from its first await to its end: the mode is not
\* tested again
process_encounter_continues(c, answers, storeOk) ==
    /\ inflight[c].pc = "awaiting"
    /\ LET encounter == inflight[c].encounter
           terms == inflight[c].terms
           outcomes == {<<term, suggest(term, <<>>, 3, answers).results>> :
                           term \in terms}
           low_confidence_suggestions ==
               \E outcome \in outcomes : \E i \in DOMAIN outcome[2] :
                   Less(outcome[2][i].confidence, LowConfidence)
       IN  /\ lastEncounter' =
                  [EncounterCall(encounter, terms, outcomes, storeOk)
                      EXCEPT !.mode0 = "active"]
           /\ suggest_calls' = suggest_calls + Cardinality(terms)
           /\ audit' = audit_log(
                  SuggestedAuditRow(encounter.encounter_id), TRUE).rows
           /\ IF ~low_confidence_suggestions
              THEN UNCHANGED <<review_queue, store_errors>>
              ELSE IF storeOk
              THEN /\ Len(review_queue) < MaxTasks
                   /\ review_queue' = Append(review_queue,
                          ReviewQueue(encounter.encounter_id,
                                      "low_confidence", "normal"))
                   /\ UNCHANGED store_errors
              ELSE /\ store_errors < MaxStoreFailures
                   /\ store_errors' = store_errors + 1
                   /\ UNCHANGED review_queue
           /\ published' = Append(published,
                                  SuggestedEvent(encounter.encounter_id))
    /\ inflight' = [inflight EXCEPT ![c] = NoFlight]
    /\ UNCHANGED <<guardVars, now, audit_errors, engineVars, indexVars,
                   loopVars, workerVars, rq, resolves, resolved_ok, encounters>>

\* encounters in flight while the operator pauses and resumes
NextInFlight ==
    \/ \E c \in Coroutines, encounter \in Encounters :
           process_encounter_starts(c, encounter)
    \/ \E c \in Coroutines, answers \in EncounterAnswers,
          storeOk \in BOOLEAN :
           process_encounter_continues(c, answers, storeOk)
    \/ \E encounter \in Encounters :
           process_encounter_skipped(encounter, TRUE)
    \/ pause
    \/ resume

SpecInFlight == Init /\ [][NextInFlight]_vars

\* -------------------------------------------------------- the review queue

\* OrchestratorService._create_review_task: one row inserted with status
\* open, or the store fails (storeOk = FALSE) and the error is logged
create_review_task(encounter_id, reason, storeOk) ==
    /\ IF storeOk
       THEN /\ Len(review_queue) < MaxTasks
            /\ review_queue' =
                   Append(review_queue, ReviewQueue(encounter_id, reason, "normal"))
            /\ UNCHANGED store_errors
       ELSE /\ store_errors < MaxStoreFailures
            /\ store_errors' = store_errors + 1
            /\ UNCHANGED review_queue
    /\ UNCHANGED <<guardVars, engineVars, encounterVars, backgroundVars, now, audit, audit_errors, rq, resolves, resolved_ok>>

\* resolve_review_task: the query for the row; no row is 404
resolve_query(r, task_id, resolution, resolved_by) ==
    /\ rq[r].pc = "idle"
    /\ resolves < MaxResolves
    /\ resolves' = resolves + 1
    /\ IF task_id \in DOMAIN review_queue
       THEN rq' = [rq EXCEPT ![r] =
                [pc |-> "found", task_id |-> task_id, resolution |-> resolution,
                 resolved_by |-> resolved_by,
                 status0 |-> review_queue[task_id].status]]
       ELSE rq' = [rq EXCEPT ![r] =
                [pc |-> "404", task_id |-> task_id, resolution |-> resolution,
                 resolved_by |-> resolved_by, status0 |-> "None"]]
    /\ UNCHANGED <<guardVars, engineVars, encounterVars, backgroundVars, now, audit, audit_errors, review_queue,
                   store_errors, resolved_ok>>

\* assignments that put a resolved row back to open
Resolved_Reopens(task, resolution, resolved_by, at) ==
    [task EXCEPT !.status = IF @ = "open" THEN "resolved" ELSE "open",
                 !.resolution = resolution,
                 !.resolved_at = at, !.assigned_to = resolved_by]

\* the assignments of resolve_review_task to the row it found
Resolved(task, resolution, resolved_by, at) ==
    [task EXCEPT !.status = "resolved", !.resolution = resolution,
                 !.resolved_at = at, !.assigned_to = resolved_by]

\* resolve_review_task from the assignments on: commit, audit_log and the
\* answer; a failing commit (storeOk = FALSE) is answered with 500
resolve_commit(r, storeOk, dbOk) ==
    /\ rq[r].pc = "found"
    /\ IF storeOk
       THEN /\ ~dbOk => audit_errors < MaxAuditFailures
            /\ review_queue' = [review_queue EXCEPT ![rq[r].task_id] =
                   Resolved(@, rq[r].resolution, rq[r].resolved_by, now)]
            /\ LET logged == audit_log(ResolvedAuditRow(rq[r].task_id,
                                  rq[r].resolution, rq[r].resolved_by), dbOk)
               IN  /\ audit' = logged.rows
                   /\ audit_errors' = logged.errors
            /\ resolved_ok' = [resolved_ok EXCEPT ![rq[r].task_id] = @ + 1]
            /\ rq' = [rq EXCEPT ![r].pc = "200"]
            /\ UNCHANGED store_errors
       ELSE /\ store_errors < MaxStoreFailures
            /\ store_errors' = store_errors + 1
            /\ rq' = [rq EXCEPT ![r].pc = "500"]
            /\ UNCHANGED <<review_queue, audit, audit_errors, resolved_ok>>
    /\ UNCHANGED <<guardVars, engineVars, encounterVars, backgroundVars, now, resolves>>

\* the answer has been sent: the request is over
resolve_answered(r) ==
    /\ rq[r].pc \in {"200", "404", "500"}
    /\ rq' = [rq EXCEPT ![r] = NoRequest]
    /\ UNCHANGED <<guardVars, engineVars, encounterVars, backgroundVars, now, audit, audit_errors, review_queue,
                   store_errors, resolves, resolved_ok>>

\* the review queue under the orchestrator that opens tasks and two
\* clinicians who resolve them at the same time
NextReview ==
    \/ Tick
    \/ \E encounter_id \in EncounterIds, storeOk \in BOOLEAN :
           create_review_task(encounter_id, "low_confidence", storeOk)
    \/ \E r \in Requests, task_id \in TaskIds,
          request \in ResolveReviewRequests :
           resolve_query(r, task_id, request.resolution, request.resolved_by)
    \/ \E r \in Requests, storeOk \in BOOLEAN :
           resolve_commit(r, storeOk, TRUE)
    \/ \E r \in Requests : resolve_answered(r)

SpecReview == Init /\ [][NextReview]_vars

\* ------------------------------------- the event loop of the orchestrator

\* asyncio.run(orchestrator.run()): run() calls event_bus.subscribe, which
\* returns at once when Redis is not available (redisOk = FALSE) and
\* otherwise stays in `for message in pubsub.listen()`
run(redisOk) ==
    /\ runState = "new"
    /\ runState' = IF redisOk THEN "listening" ELSE "returned"
    /\ UNCHANGED <<guardVars, now, audit, audit_errors, reviewVars,
                   engineVars, encounterVars, indexVars, flightVars,
                   workerVars, inbox, delivered, tasks>>

\* Redis delivers an encounter.created message to the subscription
deliver(encounter_id) ==
    /\ runState = "listening"
    /\ delivered < MaxMessages
    /\ inbox' = Append(inbox, encounter_id)
    /\ delivered' = delivered + 1
    /\ UNCHANGED <<guardVars, now, audit, audit_errors, reviewVars,
                   engineVars, encounterVars, indexVars, flightVars,
                   workerVars, runState, tasks>>

\* subscribe reads the next message and calls handler(payload), which
\* creates the task asyncio.create_task(self.process_encounter(payload));
\* subscribe does not await, so the event loop is not given the chance to
\* start the task
handler ==
    /\ runState = "listening"
    /\ inbox # <<>>
    /\ tasks' = Append(tasks, [encounter_id |-> Head(inbox),
                               state |-> "pending"])
    /\ inbox' = Tail(inbox)
    /\ UNCHANGED <<guardVars, now, audit, audit_errors, reviewVars,
                   engineVars, encounterVars, indexVars, flightVars,
                   workerVars, runState, delivered>>

\* pubsub.listen() raises (the connection is lost) or the process is
\* interrupted: subscribe returns, and with it run()
subscribe_returns ==
    /\ runState = "listening"
    /\ runState' = "returned"
    /\ UNCHANGED <<guardVars, now, audit, audit_errors, reviewVars,
                   engineVars, encounterVars, indexVars, flightVars,
                   workerVars, inbox, delivered, tasks>>

\* asyncio.run, once run() has returned: the tasks that are still pending
\* are cancelled (a task that never started ends without running its
\* coroutine) and the loop is closed
asyncio_run_ends ==
    /\ runState = "returned"
    /\ runState' = "closed"
    /\ tasks' = [i \in DOMAIN tasks |->
                    IF tasks[i].state = "pending"
                    THEN [tasks[i] EXCEPT !.state = "cancelled"]
                    ELSE tasks[i]]
    /\ UNCHANGED <<guardVars, now, audit, audit_errors, reviewVars,
                   engineVars, encounterVars, indexVars, flightVars,
                   workerVars, inbox, delivered>>

NextLoop ==
    \/ \E redisOk \in BOOLEAN : run(redisOk)
    \/ \E encounter_id \in EncounterIds : deliver(encounter_id)
    \/ handler
    \/ subscribe_returns
    \/ asyncio_run_ends

\* the process started by `python orchestrator_service.py`
SpecLoop == Init /\ [][NextLoop]_vars

\* the same, with a subscription that keeps reading what is delivered and
\* an event loop that runs whatever it is given the chance to run
SpecLoopFair ==
    /\ SpecLoop
    /\ WF_vars(handler)
    /\ WF_vars(asyncio_run_ends)

\* ---------------------------------------------------------- the FAISS index

s_X1 == <<"X","1">>
s_X2 == <<"X","2">>
s_dry == <<"d","r","y">>
s_X1_fever == <<"X","1"," ","f","e","v","e","r">>
s_ICD == <<"I","C","D">>
Digits == <<"0","1","2","3","4","5","6","7","8","9">>
Vowels == {"a","e","i","o","u","A","E","I","O","U"}

\* entries of icd_data; a key the dict does not have is the empty text, as
\* item.get(key, '') reads it
IcdItems ==
    {[code |-> s_X1, title |-> <<>>, description |-> <<>>,
      short_description |-> <<>>, text |-> t_fever],
     [code |-> s_X1, title |-> t_fever, description |-> <<>>,
      short_description |-> <<>>, text |-> <<>>],
     [code |-> <<>>, title |-> t_fever, description |-> <<>>,
      short_description |-> <<>>, text |-> <<>>],
     [code |-> s_X2, title |-> t_cough, description |-> <<>>,
      short_description |-> s_dry, text |-> <<>>]}

\* the lists build_index may be given
IcdData == UNION {[1..n -> IcdItems] : n \in 0..MaxItems}

\* the texts query may be given
QueryTexts == {t_fever, s_X1, s_X1_fever, t_cough}

\* build_index: f"{code} {title} {description}".strip()
searchable_text(item) ==
    strip(item.code \o <<" ">> \o item.title \o <<" ">>
          \o (IF item.description # <<>> THEN item.description
              ELSE item.short_description))

\* SentenceTransformer.encode: a deterministic embedding; equal texts get
\* equal vectors (here: length, vowels, digits)
encode(text) ==
    <<Len(text),
      Cardinality({i \in DOMAIN text : text[i] \in Vowels}),
      Cardinality({i \in DOMAIN text : \E d \in DOMAIN Digits :
                                           Digits[d] = text[i]})>>

\* the distance of faiss.IndexFlatL2: the squared L2 distance
L2(a, b) ==
    (a[1] - b[1]) * (a[1] - b[1]) + (a[2] - b[2]) * (a[2] - b[2])
    + (a[3] - b[3]) * (a[3] - b[3])

\* index.search(query, k): the k nearest vectors, the nearest first, as
\* (distance, 0-based position) pairs
search(vectors, query, k) ==
    LET all == [i \in DOMAIN vectors |->
                   [distance |-> L2(vectors[i], query), idx |-> i - 1,
                    key |-> Frac(L2(vectors[i], query), 1)]]
        sorted == StableSort(all)
    IN  SubSeq(sorted, 1, Min(k, Len(sorted)))

\* what a call on the index leaves behind
IndexCall(op, arg, result) == [op |-> op, arg |-> arg, result |-> result]

\* FaissIndex.build_index(icd_data); writing the files may fail (writeOk =
\* FALSE), the exception is raised again and the object keeps what it had
build_index(icd_data, writeOk) ==
    /\ LET texts == [i \in DOMAIN icd_data |-> searchable_text(icd_data[i])]
           codes == [i \in DOMAIN icd_data |-> icd_data[i].code]
           embeddings == [i \in DOMAIN texts |-> encode(texts[i])]
       IN  IF texts = <<>>
           THEN /\ indexCall' = IndexCall("build_index", icd_data, "False")
                /\ UNCHANGED <<index, icd_texts, icd_codes, disk, built>>
           ELSE IF ~writeOk
           THEN /\ indexCall' = IndexCall("build_index", icd_data, "raised")
                /\ UNCHANGED <<index, icd_texts, icd_codes, disk, built>>
           ELSE /\ disk' = [index |-> [vectors |-> embeddings],
                            texts |-> [array |-> texts]]
                /\ index' = [vectors |-> embeddings]
                /\ icd_texts' = [array |-> texts]
                /\ icd_codes' = codes
                /\ built' = [icd_data |-> icd_data]
                /\ indexCall' = IndexCall("build_index", icd_data, "True")
    /\ UNCHANGED <<guardVars, now, audit, audit_errors, reviewVars,
                   engineVars, encounterVars, flightVars, loopVars, workerVars>>

\* the code query reports for position idx
code_at(idx) ==
    IF idx < Len(icd_codes) THEN icd_codes[idx + 1]
    ELSE s_ICD \o <<Digits[idx + 1]>>

\* FaissIndex.query(text, k); encoding or searching may raise (encodeOk =
\* FALSE), the exception is logged and [] returned
query(text, k, encodeOk) ==
    /\ indexCall' =
           IndexCall("query", [text |-> text, k |-> k, encodeOk |-> encodeOk],
               IF index = None \/ icd_texts = None \/ ~encodeOk THEN <<>>
               ELSE LET found == search(index.vectors, encode(text), k)
                        kept == {p \in DOMAIN found :
                                    found[p].idx < Len(icd_texts.array)}
                    IN  [p \in 1..Cardinality(kept) |->
                            LET hit == found[CHOOSE q \in kept :
                                Cardinality({r \in kept : r <= q}) = p]
                            IN  [code |-> code_at(hit.idx),
                                 text |-> icd_texts.array[hit.idx + 1],
                                 index |-> hit.idx,
                                 distance |-> hit.distance]])
    /\ UNCHANGED <<guardVars, now, audit, audit_errors, reviewVars,
                   engineVars, encounterVars, flightVars, loopVars, workerVars,
                   index, icd_texts, icd_codes, disk, built>>

\* FaissIndex.__init__ in a new process: the index and the texts are read
\* from the files when both are there; reading may fail (loadOk = FALSE)
FaissIndex(loadOk) ==
    /\ IF disk # None /\ loadOk
       THEN /\ index' = disk.index
            /\ icd_texts' = disk.texts
       ELSE /\ index' = None
            /\ icd_texts' = None
    /\ icd_codes' = <<>>
    /\ built' = None
    /\ indexCall' = None
    /\ UNCHANGED <<guardVars, now, audit, audit_errors, reviewVars,
                   engineVars, encounterVars, flightVars, loopVars, workerVars,
                   disk>>

NextIndex ==
    \/ \E icd_data \in IcdData, writeOk \in BOOLEAN :
           build_index(icd_data, writeOk)
    \/ \E text \in QueryTexts, k \in Ks, encodeOk \in BOOLEAN :
           query(text, k, encodeOk)
    \/ \E loadOk \in BOOLEAN : FaissIndex(loadOk)

\* the FAISS index service, built, queried and reloaded
SpecIndex == Init /\ [][NextIndex]_vars

\* ------------------------------------------------- background worker
\* services/orchestrator.py: the worker started by main.py that turns
\* unsynced clinical records into claims_log entries

MaxPasses == 3

\* LIMIT 10 of the SELECT
BatchLimit == 10

\* the order in which the table returns its rows
RecordOrder == <<"rec1", "rec2">>

\* where the processing of one row raises: nowhere, while the claim is built
\* (json.loads of the provenance), in the INSERT, or in the UPDATE
FailurePoints == {"none", "claim", "insert", "update"}

\* POST /api/save_record stores a clinical record; synced defaults to False
new_record(id, consent) ==
    /\ ~clinical_records[id].exists
    /\ clinical_records' =
           [clinical_records EXCEPT
               ![id] = [exists |-> TRUE, consent |-> consent, synced |-> FALSE]]
    /\ UNCHANGED <<guardVars, now, audit, audit_errors, reviewVars,
                   engineVars, encounterVars, indexVars, flightVars, loopVars,
                   claims_log, passes>>

\* SELECT ... WHERE synced = 0 AND consent = 1 LIMIT 10
UnsyncedRows ==
    LET eligible(id) == /\ clinical_records[id].exists
                        /\ ~clinical_records[id].synced
                        /\ clinical_records[id].consent
        rows == SelectSeq(RecordOrder, eligible)
    IN SubSeq(rows, 1, IF Len(rows) < BatchLimit THEN Len(rows) ELSE BatchLimit)

\* the body of the for loop for one row, on the session's pending state:
\* the INSERT and the UPDATE are two statements of one open transaction, and
\* a statement that raises leaves the earlier ones pending (except: continue)
ProcessRow(session, id, failure) ==
    LET inserted ==
            [session EXCEPT
                !.claims_log = Append(@, [record_id |-> id, status |-> "SENT"])]
        updated ==
            [inserted EXCEPT !.clinical_records[id].synced = TRUE]
    IN CASE failure \in {"claim", "insert"} -> session
         [] failure = "update" -> inserted
         [] OTHER -> updated

RECURSIVE ProcessRows(_, _, _)
ProcessRows(session, rows, failures) ==
    IF rows = <<>>
    THEN session
    ELSE ProcessRows(ProcessRow(session, Head(rows), failures[Head(rows)]),
                     Tail(rows), failures)

\* one pass of the worker: select, process each row, commit once; a commit
\* that raises leaves the database as it was (outer except)
process_unsynced_records(failures, commitOk) ==
    /\ passes < MaxPasses
    /\ passes' = passes + 1
    /\ LET session == ProcessRows([clinical_records |-> clinical_records,
                                   claims_log |-> claims_log],
                                  UnsyncedRows, failures)
       IN IF commitOk
          THEN /\ clinical_records' = session.clinical_records
               /\ claims_log' = session.claims_log
          ELSE UNCHANGED <<clinical_records, claims_log>>
    /\ UNCHANGED <<guardVars, now, audit, audit_errors, reviewVars,
                   engineVars, encounterVars, indexVars, flightVars, loopVars>>

NextWorker ==
    \/ \E id \in RecordIds, consent \in BOOLEAN : new_record(id, consent)
    \/ \E failures \in [RecordIds -> FailurePoints], commitOk \in BOOLEAN :
           process_unsynced_records(failures, commitOk)

\* the background worker running beside the record endpoint
SpecWorker == Init /\ [][NextWorker]_vars

\* ------------------------------------------------------------------ claims

Blocked(call) == call.result = "PermissionError"

WithinWindow == now - last_reset < WindowSeconds

\* rows of the audit table that record a blocked write
BlockedAuditRows ==
    {i \in DOMAIN audit :
        /\ audit[i].action = "mapping_write_blocked"
        /\ audit[i].status = "blocked"
        /\ audit[i].attempted_write}

\* a resource that, with backslashes replaced, equals a protected identifier
\* or contains one
NamesProtected(resource) ==
    \E protected \in MAPPING_DATA_RESOURCES :
        \/ Normalize(resource) = protected
        \/ Contains(protected, Normalize(resource))

\* C1: safe_write ends in PermissionError exactly for the resources that,
\* once normalised, equal or contain a protected identifier, and returns
\* True for the others; in particular it is blocked for every member of the
\* protected set itself.
C1_BlockedExactlyForProtected ==
    lastCall # NoCall =>
        /\ lastCall.result \in {"True", "PermissionError"}
        /\ Blocked(lastCall) <=> NamesProtected(lastCall.resource)
        /\ lastCall.resource \in MAPPING_DATA_RESOURCES => Blocked(lastCall)

\* C2: when no call is in flight, the audit table holds as many
\* mapping_write_blocked rows as there were calls that ended blocked.
C2_OneAuditRowPerBlockedCall ==
    AllIdle => Cardinality(BlockedAuditRows) = raised

\* C3: after reset_blocked_writes() and then resume(), the mode is active
\* until the third blocked write, and paused once a third one has been
\* counted within an hour of the reset.
C3_PausedByThirdBlock ==
    opHist = <<"reset_blocked_writes", "resume">> =>
        /\ Len(streak) < PauseThreshold => mode = "active"
        /\ (/\ Len(streak) >= PauseThreshold
            /\ streak[PauseThreshold].at - last_reset < WindowSeconds)
           => (~is_active /\ mode = "paused")

C3_Witness ==
    /\ opHist = <<"reset_blocked_writes", "resume">>
    /\ last_reset > 0
    /\ Len(streak) = PauseThreshold
    /\ streak[PauseThreshold].at - last_reset < WindowSeconds
    /\ \A i \in DOMAIN streak : streak[i].mode0 = "active"
    /\ mode = "paused"

\* C4: whenever the latest three blocked calls were made in active mode and
\* lie within 3600 seconds of one another, the mode is paused after the
\* third, however long ago the counter was reset.
C4_RollingWindow ==
    (/\ AllIdle
     /\ Len(streak) >= PauseThreshold
     /\ \A i \in (Len(streak) - 2)..Len(streak) : streak[i].mode0 = "active"
     /\ streak[Len(streak)].at - streak[Len(streak) - 2].at < WindowSeconds)
    => mode = "paused"

\* C5: under every interleaving, k blocked calls raise the counter by k, and
\* the mode is not active once three of them have ended within the window.
C5_AtomicIncrement ==
    AllIdle =>
        /\ blocked_write_count = raised
        /\ (raised >= PauseThreshold /\ WithinWindow) => mode # "active"

\* C6: resume() called after pause() makes is_active() true and leaves the
\* counter and the window start as they were.
C6_ResumeKeepsCounter ==
    [][(opHist = <<"-", "pause">> /\ opHist' = <<"pause", "resume">>)
       => /\ mode' = "active"
          /\ blocked_write_count' = blocked_write_count
          /\ last_reset' = last_reset]_vars

C6_Witness ==
    /\ opHist = <<"pause", "resume">>
    /\ lastCall = NoCall
    /\ streak = <<>>
    /\ is_active
    /\ blocked_write_count > 0
    /\ last_reset > 0

\* C7: the mode leaves manual only by a pause() or resume() call and enters
\* it only by set_manual(); blocked writes never change a manual mode.
C7_ManualOnlyByOperator ==
    [][/\ (mode = "manual" /\ mode' # "manual") => (pause \/ resume)
       /\ (mode # "manual" /\ mode' = "manual") => set_manual]_vars

\* C8: a fourth blocked write, arriving in the window in which the third one
\* paused the orchestrator, ends in PermissionError, leaves the mode paused
\* and sends no second "Orchestrator Paused" notification.
C8_NoDoublePause ==
    [][(/\ pc[T1] = "check" /\ pc'[T1] = "idle"
        /\ Len(streak) = PauseThreshold
        /\ mode = "paused"
        /\ WithinWindow)
       => /\ mode' = "paused"
          /\ Blocked(lastCall')
          /\ notified'[PausedTitle] = notified[PausedTitle]]_vars

\* C9: a failed audit append returns -1 and aborts nothing: the safe_write
\* still ends in PermissionError with the counter raised by one, and pauses
\* when that makes three within the window.
C9_AuditFailureNeverAborts ==
    /\ audit_log(BlockedAuditRow, FALSE).id = -1
    /\ audit_log(BlockedAuditRow, FALSE).rows = audit
    /\ lastCall.audit_id = -1 =>
           /\ Blocked(lastCall)
           /\ blocked_write_count = lastCall.count0 + 1
           /\ (blocked_write_count >= PauseThreshold /\ WithinWindow)
                  => mode = "paused"

C9_Witness ==
    /\ lastCall.audit_id = -1
    /\ Blocked(lastCall)
    /\ audit_errors = 1
    /\ lastCall.count0 = PauseThreshold - 1
    /\ blocked_write_count = PauseThreshold
    /\ mode = "paused"

\* C10: after a blocked safe_write has ended, either both of its side
\* effects have happened, the audit row and the counter increment (with the
\* pause when it is the third in the window), or neither, also when the
\* audit store fails.
C10_SideEffectsTogether ==
    Blocked(lastCall) =>
        ((lastCall.audit_id > 0) <=> (blocked_write_count = lastCall.count0 + 1))

\* C11: a failing notification sink is never fatal: a safe_write on a
\* protected resource still ends in PermissionError with the counter raised
\* by one, and a pause() still leaves the mode paused and returns to its
\* caller without an exception.
C11_SinkFailureNeverFatal ==
    /\ (lastCall # NoCall /\ is_mapping_resource(lastCall.resource)) =>
           /\ Blocked(lastCall)
           /\ blocked_write_count = lastCall.count0 + 1
    /\ opHist[2] = "pause" => (mode = "paused" /\ pauseCall = "returned")

\* C12: a process_encounter call that starts while the mode is paused or
\* manual calls suggest for no term, adds no row to the review queue,
\* publishes no event and leaves exactly one more audit row, the
\* 'encounter_skipped' row with status blocked for its encounter; a call that
\* starts in active mode right after resume() calls suggest once for each of
\* its terms.
C12_RefusedWhileNotActive ==
    [][encounters' # encounters =>
          /\ mode \in {"paused", "manual"} =>
                 /\ suggest_calls' = suggest_calls
                 /\ review_queue' = review_queue
                 /\ published' = published
                 /\ audit' = Append(audit,
                        SkippedAuditRow(lastEncounter'.encounter_id))
          /\ (mode = "active" /\ opHist[2] = "resume") =>
                 suggest_calls' =
                     suggest_calls + Cardinality(lastEncounter'.terms)]_vars

\* the terminal values of ReviewQueue.status
Terminal == {"resolved", "dismissed"}

\* rows of the audit table that record the resolution of task id
ResolvedAuditRows(id) ==
    {i \in DOMAIN audit :
        /\ audit[i].action = "review_task_resolved"
        /\ audit[i].task_id = id}

\* C13: a resolve request that finds its task already resolved or dismissed
\* is rejected: the row keeps its status, resolution, resolved_at and
\* assignee, and no review_task_resolved audit row is written.
C13_TerminalResolveRejected ==
    [][\A r \in Requests :
          (/\ rq[r].pc = "found"
           /\ rq'[r].pc # "found"
           /\ review_queue[rq[r].task_id].status \in Terminal)
          => /\ rq'[r].pc # "200"
             /\ review_queue' = review_queue
             /\ audit' = audit]_vars

\* C14: of two resolve requests that both read the same task while it was
\* open, at most one is answered with success and at most one
\* review_task_resolved audit row exists for the task.
C14_OneResolveWins ==
    (/\ rq["r1"].pc \in {"200", "500"}
     /\ rq["r2"].pc \in {"200", "500"}
     /\ rq["r1"].task_id = rq["r2"].task_id
     /\ rq["r1"].status0 = "open"
     /\ rq["r2"].status0 = "open")
    => /\ ~(rq["r1"].pc = "200" /\ rq["r2"].pc = "200")
       /\ Cardinality(ResolvedAuditRows(rq["r1"].task_id)) <= 1

\* C15: no step takes a task out of resolved or dismissed, removes a row of
\* the review queue or gives a row another encounter: the ids only grow.
C15_TerminalNeverRegresses ==
    [][/\ Len(review_queue') >= Len(review_queue)
       /\ \A id \in DOMAIN review_queue :
              /\ review_queue'[id].encounter_id = review_queue[id].encounter_id
              /\ review_queue[id].status \in Terminal
                     => review_queue'[id].status \in Terminal]_vars

C15_Witness ==
    /\ Len(review_queue) = MaxTasks
    /\ review_queue[1].status = "resolved"
    /\ resolved_ok[1] >= 2
    /\ review_queue[MaxTasks].status = "open"

\* the confidence of the best candidate in a result list of suggest
BestConfidence(results) ==
    LET best == CHOOSE i \in DOMAIN results :
                    \A j \in DOMAIN results :
                        ~Less(results[i].confidence, results[j].confidence)
    IN  results[best].confidence

\* for one of the terms of the call, suggest returned candidates and the best
\* of them has a confidence below 0.7
SomeBestBelowThreshold(call) ==
    \E outcome \in call.outcomes :
        /\ outcome[2] # <<>>
        /\ Less(BestConfidence(outcome[2]), Frac(7, 10))

\* the step adds an open low_confidence task for the encounter to the queue
OpensLowConfidenceTask(encounter_id) ==
    /\ Len(review_queue') = Len(review_queue) + 1
    /\ SubSeq(review_queue', 1, Len(review_queue)) = review_queue
    /\ LET task == review_queue'[Len(review_queue')]
       IN  /\ task.encounter_id = encounter_id
           /\ task.reason = "low_confidence"
           /\ task.status = "open"

\* C16: a process_encounter call that starts in active mode, with a review
\* store that accepts inserts, adds an open low_confidence task for its
\* encounter to the review queue if and only if, for one of its terms, the
\* best candidate suggest returned has a confidence below 0.7.
C16_LowConfidenceEscalation ==
    [][(encounters' # encounters /\ mode = "active" /\ lastEncounter'.storeOk) =>
          (OpensLowConfidenceTask(lastEncounter'.encounter_id)
              <=> SomeBestBelowThreshold(lastEncounter'))]_vars

\* a call in active mode for the notes 'Fever kasa' has ended: 'kasa' got
\* its catalog link with 0.99, 'Fever' got text matches whose best is below
\* 0.7, and the task for the encounter is the last of the queue
C16_Witness ==
    /\ lastEncounter.mode0 = "active"
    /\ lastEncounter.storeOk
    /\ Cardinality(lastEncounter.terms) = 2
    /\ \E outcome \in lastEncounter.outcomes :
           /\ outcome[2] # <<>>
           /\ ~Less(BestConfidence(outcome[2]), Frac(7, 10))
    /\ SomeBestBelowThreshold(lastEncounter)
    /\ Len(review_queue) = lastEncounter.queue0 + 1
    /\ review_queue[Len(review_queue)].encounter_id = lastEncounter.encounter_id
    /\ review_queue[Len(review_queue)].reason = "low_confidence"
    /\ review_queue[Len(review_queue)].status = "open"

\* C17: once no call is in flight, the review queue holds one open task with
\* reason blocked_write for every safe_write that ended blocked.
C17_BlockedWriteOpensTask ==
    AllIdle =>
        Cardinality({id \in DOMAIN review_queue :
                        /\ review_queue[id].reason = "blocked_write"
                        /\ review_queue[id].status = "open"}) = raised

\* the same text up to letter case and surrounding whitespace
SameText(a, b) == lower(strip(a)) = lower(strip(b))

\* the entries of the term catalog that the term names, by display text or
\* by term code
NamedEntries(term) ==
    {ayush_map[key] : key \in
        {key \in DOMAIN ayush_map :
            \/ SameText(term, ayush_map[key].ayush)
            \/ SameText(term, ayush_map[key].code)}}

s_CA23 == <<"C","A","2","3">>
s_J20_9 == <<"J","2","0",".","9">>

\* C18: a term that names an entry of the term catalog, by display text or
\* by code, in any letter case and with any padding, whose linked code is
\* in the code catalog, gets exactly one candidate: that code, confidence
\* 0.99, tier exact, whether or not the term contains a rule keyword.
C18_ExactTier ==
    lastSuggest # None =>
        \A entry \in NamedEntries(suggestCall.term) :
            in_icd11_map(entry.icd_code) =>
                /\ lastSuggest.type = "exact"
                /\ Len(lastSuggest.results) = 1
                /\ lastSuggest.results[1].icd_code = entry.icd_code
                /\ lastSuggest.results[1].confidence = Frac(99, 100)

C18_Witness ==
    /\ lastSuggest # None
    /\ suggestCall.term = t_KASA_padded
    /\ MatchingKeywords(suggestCall.term) # {}
    /\ in_icd11_map(s_J20_9)
    /\ lastSuggest.type = "exact"
    /\ lastSuggest.results[1].icd_code = s_CA23

\* a term that is in no catalog: no key of the term catalog, and no code,
\* title or description of the code catalog
InNoCatalog(term) ==
    /\ lower(strip(term)) \notin DOMAIN ayush_map
    /\ \A i \in DOMAIN icd11_map :
           /\ ~SameText(term, icd11_map[i].code)
           /\ ~SameText(term, icd11_map[i].title)
           /\ ~SameText(term, icd11_map[i].description)

\* the outcome "no candidates" of the vector tier
NoCandidates(outcome) ==
    /\ outcome.type = "faiss"
    /\ outcome.results = <<>>
    /\ outcome.provenance = [step |-> "faiss", error |-> "No candidates found"]

\* a call without symptoms, with no FAISS index loaded and no API service
PlainCall ==
    /\ lastSuggest # None
    /\ suggestCall.symptoms = <<>>
    /\ ~faiss_loaded
    /\ ~icd11_service

TextMatches(term) ==
    \E i \in DOMAIN icd11_map :
        \/ Contains(lower(term), lower(icd11_map[i].title))
        \/ Contains(lower(term), lower(icd11_map[i].description))
        \/ \E word \in split(lower(term)) :
               Contains(word, lower(icd11_map[i].title))

EarliestKeywordCode(term) ==
    keyword_to_icd[CHOOSE i \in MatchingKeywords(term) :
                      \A j \in MatchingKeywords(term) : i <= j][2]

\* the outcome of the rule tier with the given code
RuleOutcome(outcome, code) ==
    /\ outcome.type = "rule"
    /\ Len(outcome.results) = 1
    /\ outcome.results[1].icd_code = code
    /\ outcome.results[1].step = "rule"
    /\ outcome.consulted = <<"exact", "rule">>

\* C20 as stated: a term that misses the exact tier and contains a rule
\* keyword gets exactly one candidate, of the rule tier, with the code of
\* the keyword declared first; the vector tier is not consulted.
C20_RuleTier ==
    (/\ lastSuggest # None
     /\ exact_match(suggestCall.term) = None
     /\ MatchingKeywords(suggestCall.term) # {})
    => RuleOutcome(lastSuggest, EarliestKeywordCode(suggestCall.term))

\* C20, amended: the same, when the code of that keyword is in the code
\* catalog.
C20_Amended ==
    (/\ lastSuggest # None
     /\ exact_match(suggestCall.term) = None
     /\ MatchingKeywords(suggestCall.term) # {}
     /\ in_icd11_map(EarliestKeywordCode(suggestCall.term)))
    => RuleOutcome(lastSuggest, EarliestKeywordCode(suggestCall.term))

C20_Witness ==
    /\ lastSuggest # None
    /\ suggestCall.term = t_jwarakasa
    /\ Cardinality(MatchingKeywords(suggestCall.term)) = 2
    /\ RuleOutcome(lastSuggest, s_J20_9)

\* the confidence rounds to the two-decimal value: it is within 0.005 of it
Approx(confidence, hundredths) ==
    /\ ~Less(confidence, Frac(2 * hundredths - 1, 200))
    /\ Less(confidence, Frac(2 * hundredths + 1, 200))

\* 0.6*1.0 + 0.4*(1/(1+0.1))
SharedFormulaForRule ==
    Plus(Times(Frac(6, 10), One),
         Times(Frac(4, 10), Inverse(Plus(One, Frac(1, 10)))))

\* C21 as stated: every result of the rule tier has the confidence
\* 0.6*1.0 + 0.4*(1/(1+0.1)), and that value is 0.66 to two decimals.
C21_RuleConfidence ==
    (lastSuggest # None /\ lastSuggest.type = "rule") =>
        \A i \in DOMAIN lastSuggest.results :
            /\ lastSuggest.results[i].confidence = SharedFormulaForRule
            /\ Approx(lastSuggest.results[i].confidence, 66)

\* C21, amended: every result of the rule tier has the confidence
\* 0.6*1.0 + 0.4*(1/(1+0.1)), and that value is 0.96 to two decimals.
C21_Amended ==
    (lastSuggest # None /\ lastSuggest.type = "rule") =>
        \A i \in DOMAIN lastSuggest.results :
            /\ lastSuggest.results[i].confidence = SharedFormulaForRule
            /\ Approx(lastSuggest.results[i].confidence, 96)

\* suggest('Jwara') has ended in the rule tier with one result (the rule
\* table of the code has no keyword 'fever')
C21_Witness ==
    /\ lastSuggest # None
    /\ suggestCall.term = t_Jwara
    /\ lastSuggest.type = "rule"
    /\ Len(lastSuggest.results) = 1
    /\ lastSuggest.results[1].step = "rule"

\* what step 3 of the call finds in the code catalog
LocalCandidates(call) ==
    embedding_candidates(query_text(call.term, call.symptoms), call.k * 2,
                         call.answers.faiss)

\* the call reached step 3, found no local candidate and asked the API,
\* which answered with entities
AnsweredByApi(call) ==
    /\ exact_match(call.term) = None
    /\ rule_match(call.term) = None
    /\ LocalCandidates(call) = <<>>
    /\ icd11_service
    /\ call.answers.api.ok
    /\ call.answers.api.entities # <<>>

\* C22: a result whose provenance names the API is only returned by a call
\* whose local search found no candidate; and when the API was asked and
\* answered with entities, every result of the call has confidence 0.8 and
\* a provenance that names the API as its source.
C22_ExternalFallback ==
    lastSuggest # None =>
        /\ \A i \in DOMAIN lastSuggest.results :
               lastSuggest.results[i].source = "who_icd11_api" =>
                   LocalCandidates(suggestCall) = <<>>
        /\ AnsweredByApi(suggestCall) =>
               /\ lastSuggest.results # <<>>
               /\ \A i \in DOMAIN lastSuggest.results :
                      /\ lastSuggest.results[i].confidence = Frac(8, 10)
                      /\ lastSuggest.results[i].source = "who_icd11_api"

\* C23: every result of suggest, whatever its tier, has a confidence of at
\* least 0 and at most 1.
C23_ConfidenceInUnitInterval ==
    lastSuggest # None =>
        \A i \in DOMAIN lastSuggest.results :
            /\ ~Less(lastSuggest.results[i].confidence, Zero)
            /\ ~Less(One, lastSuggest.results[i].confidence)

\* a call has ended in the vector tier with several results that the
\* reranker gave probabilities to, a local one among them
C23_Witness ==
    /\ lastSuggest # None
    /\ lastSuggest.type = "faiss"
    /\ Len(lastSuggest.results) > 1
    /\ reranker
    /\ suggestCall.answers.reranker.ok
    /\ \E i, j \in DOMAIN lastSuggest.results :
           Less(lastSuggest.results[i].confidence,
                lastSuggest.results[j].confidence)

\* C28: every result of the vector tier, local or from the API, with or
\* without reranker, has a confidence of at most 0.58, which is below 0.7.
C28_VectorTierBelowThreshold ==
    (lastSuggest # None /\ lastSuggest.type = "faiss") =>
        \A i \in DOMAIN lastSuggest.results :
            /\ ~Less(Frac(58, 100), lastSuggest.results[i].confidence)
            /\ Less(lastSuggest.results[i].confidence, LowConfidence)

\* a call has ended in the vector tier with a result at distance 0 that the
\* reranker gave probability 1: its confidence is 0.58
C28_Witness ==
    /\ lastSuggest # None
    /\ lastSuggest.type = "faiss"
    /\ faiss_loaded
    /\ reranker
    /\ \E i \in DOMAIN lastSuggest.results :
           lastSuggest.results[i].confidence = Frac(58, 100)

\* the single-entry lists of the round trip: code X1 with the text 'fever',
\* under the key 'text' or under the key 'title'
FeverEntry ==
    {<<item>> : item \in {i \in IcdItems :
        i.code = s_X1 /\ (i.text = t_fever \/ i.title = t_fever)}}

\* C24: on an index built from the single entry {code X1, text 'fever'}, a
\* query for 'fever' whose encoding does not fail returns X1 first, at
\* distance 0.
C24_RoundTrip ==
    (/\ built # None
     /\ built.icd_data \in FeverEntry
     /\ indexCall # None
     /\ indexCall.op = "query"
     /\ indexCall.arg.text = t_fever
     /\ indexCall.arg.encodeOk) =>
        /\ indexCall.result # <<>>
        /\ indexCall.result[1].code = s_X1
        /\ indexCall.result[1].distance = 0

\* C25: when resume() was called with the counter at 3 or more and no
\* reset, the first blocked safe_write that ends afterwards, within an hour
\* of the last reset, leaves the mode paused (and so does every later one).
C25_OneBlockedWriteFromRepause ==
    (/\ opHist[2] = "resume"
     /\ Len(streak) >= 1
     /\ blocked_write_count - Len(streak) >= PauseThreshold
     /\ streak[1].at - last_reset < WindowSeconds) =>
        mode = "paused"

\* three blocked writes paused the orchestrator, resume() made it active,
\* and the one blocked write that started in active mode since has paused it
C25_Witness ==
    /\ opHist = <<"safe_write", "resume">>
    /\ Len(streak) = 1
    /\ streak[1].mode0 = "active"
    /\ blocked_write_count = PauseThreshold + 1
    /\ streak[1].at - last_reset < WindowSeconds
    /\ mode = "paused"

\* the protected sets a configuration file that loads cleanly gives
CleanLoads ==
    {config.resources : config \in {c \in ConfigFiles : c.kind = "list"}}

\* C29: when the configuration did not load cleanly (the file is absent,
\* unreadable or malformed), the protected set is not empty and contains
\* the hardcoded defaults, and a safe_write on data/namaste.csv that has
\* ended was blocked.
C29_NeverFailsOpen ==
    MAPPING_DATA_RESOURCES \notin CleanLoads =>
        /\ MAPPING_DATA_RESOURCES # {}
        /\ DefaultResources \subseteq MAPPING_DATA_RESOURCES
        /\ (/\ lastCall # NoCall
            /\ Normalize(lastCall.resource) = s_data_namaste_csv)
               => Blocked(lastCall)

C26_EveryMessageHandled ==
    \A i \in 1..MaxMessages :
        (delivered >= i) ~> (Len(tasks) >= i /\ tasks[i].state = "done")

ClaimsOf(id) == {i \in DOMAIN claims_log : claims_log[i].record_id = id}

\* C30: over any sequence of passes of the worker, also with rows that fail
\* part-way, a record has a committed claims_log entry only if it has consent,
\* it never has more than one, and a record with an entry is marked synced.
C30_ClaimedOnceWithConsent ==
    \A id \in RecordIds :
        /\ Cardinality(ClaimsOf(id)) <= 1
        /\ ClaimsOf(id) # {} =>
               /\ clinical_records[id].exists
               /\ clinical_records[id].consent
               /\ clinical_records[id].synced

====
